---- MODULE Spec2Model ----
(***************************************************************************)
(* A model of three components of OM1:                                     *)
(*   - ConversationHistoryManager                                          *)
(*     (src/src/providers/conversation_history_manager.py): the in-memory  *)
(*     history of each manager object, its lock, the files it reads and    *)
(*     writes, and the threads that call its methods;                      *)
(*   - GPSFabricConnector (src/src/actions/gps/connector/fabric.py): one   *)
(*     connector sending coordinates to an endpoint, attempt by attempt;   *)
(*   - the simulator loader (src/src/simulators/__init__.py): the plugins  *)
(*     directory, the plugin modules and the calls of the loader.          *)
(***************************************************************************)
EXTENDS Bags, FiniteSets, Integers, Sequences, TLC

(***************************************************************************)
(* Bounds of the model.                                                    *)
(***************************************************************************)
MaxSize == 2        \* largest max_history_size a manager is configured with
MaxCalls == 3       \* method calls issued in one behaviour
MaxClock == 1       \* last tick of the wall clock

(***************************************************************************)
(* Python values.  Every value carries its type in the field t, so that    *)
(* values of different types can be compared.                              *)
(*   none, int (n), str (s), str holding an ISO time (iso),                *)
(*   list (l: sequence of values),                                         *)
(*   dict (d: the string-keyed items, ik: the integer-keyed items).        *)
(***************************************************************************)
NoneV == [t |-> "none"]
IntV(n) == [t |-> "int", n |-> n]
BoolV(b) == [t |-> "bool", b |-> b]
StrV(s) == [t |-> "str", s |-> s]
TimeV(n) == [t |-> "str", iso |-> n]
ListV(l) == [t |-> "list", l |-> l]
DictV(d) == [t |-> "dict", d |-> d, ik |-> <<>>]
DictIV(d, ik) == [t |-> "dict", d |-> d, ik |-> ik]
EmptyList == ListV(<<>>)
EmptyDict == DictV(<<>>)

IsList(v) == v.t = "list"
IsDict(v) == v.t = "dict"

\* bool(v): Python truthiness of the values of the model
Truthy(v) ==
    CASE v.t = "none" -> FALSE
      [] v.t = "bool" -> v.b
      [] v.t = "int" -> v.n # 0
      [] v.t = "str" -> IF "s" \in DOMAIN v THEN v.s # "" ELSE TRUE
      [] v.t = "list" -> Len(v.l) > 0
      [] v.t = "dict" -> (DOMAIN v.d # {}) \/ (DOMAIN v.ik # {})

\* str(n) for the integers used as dict keys
IntStr(n) == CASE n = 1 -> "1" [] n = 2 -> "2" [] OTHER -> "0"

(***************************************************************************)
(* JSON documents: null, true/false, number, string, array (a), object (o) *)
(* ToJson is json.dump's encoding, FromJson json.load's decoding.          *)
(***************************************************************************)
JNull == [j |-> "null"]
JBool(b) == [j |-> "bool", b |-> b]
JNum(n) == [j |-> "number", n |-> n]
JStr(s) == [j |-> "string", s |-> s]
JTime(n) == [j |-> "string", iso |-> n]
JArr(a) == [j |-> "array", a |-> a]
JObj(o) == [j |-> "object", o |-> o]

\* json.dump turns an integer key k into the string key str(k)
JsonKeys(v) == DOMAIN v.d \cup {IntStr(k) : k \in DOMAIN v.ik}

RECURSIVE ToJson(_)
ToJson(v) ==
    CASE v.t = "none" -> JNull
      [] v.t = "bool" -> JBool(v.b)
      [] v.t = "int" -> JNum(v.n)
      [] v.t = "str" -> IF "s" \in DOMAIN v THEN JStr(v.s) ELSE JTime(v.iso)
      [] v.t = "list" -> JArr([i \in DOMAIN v.l |-> ToJson(v.l[i])])
      [] v.t = "dict" ->
            JObj([k \in JsonKeys(v) |->
                    IF k \in DOMAIN v.d
                    THEN ToJson(v.d[k])
                    ELSE ToJson(v.ik[CHOOSE n \in DOMAIN v.ik : IntStr(n) = k])])

RECURSIVE FromJson(_)
FromJson(x) ==
    CASE x.j = "null" -> NoneV
      [] x.j = "bool" -> BoolV(x.b)
      [] x.j = "number" -> IntV(x.n)
      [] x.j = "string" -> IF "s" \in DOMAIN x THEN StrV(x.s) ELSE TimeV(x.iso)
      [] x.j = "array" -> ListV([i \in DOMAIN x.a |-> FromJson(x.a[i])])
      [] x.j = "object" -> DictV([k \in DOMAIN x.o |-> FromJson(x.o[k])])

(***************************************************************************)
(* Files.  A path is <agent>_<kind>[_<ts>].<ext>; export files chosen by   *)
(* the caller have kind "export" and no agent.                             *)
(***************************************************************************)
Agents == {"bot"}
Mgrs == {"A", "B"}
Threads == {"t1", "t2"}
Ticks == 0..MaxClock

HistoryFile(a) == [agent |-> a, kind |-> "history", ts |-> 0, ext |-> "json"]
BackupFile(a, ts) == [agent |-> a, kind |-> "backup", ts |-> ts, ext |-> "json"]
ExportFile == [agent |-> "", kind |-> "export", ts |-> 0, ext |-> "json"]
NoPath == [agent |-> "", kind |-> "none", ts |-> 0, ext |-> ""]
\* Path.with_suffix
WithSuffix(p, e) == [p EXCEPT !.ext = e]

Targets == {HistoryFile(a) : a \in Agents} \cup {ExportFile}
              \cup {BackupFile(a, ts) : a \in Agents, ts \in Ticks}
Paths == Targets \cup {WithSuffix(p, "tmp") : p \in Targets}

\* What a path holds: nothing, the complete text of a JSON document, a
\* proper prefix of such a text (a file opened for writing and not yet
\* completely written), bytes that are not JSON, or a file that cannot be
\* opened for reading.
Absent == [f |-> "absent"]
Text(doc) == [f |-> "json", doc |-> doc]
Partial == [f |-> "partial"]
Garbage == [f |-> "garbage"]
Unreadable == [f |-> "unreadable"]

Min(a, b) == IF a < b THEN a ELSE b
Max(a, b) == IF a > b THEN a ELSE b

\* l[i:] for a Python list l and an integer i (a negative i counts from the end)
PySliceFrom(l, i) ==
    LET start == IF i < 0 THEN Max(Len(l) + i, 0) ELSE Min(i, Len(l))
    IN  SubSeq(l, start + 1, Len(l))

\* len(v) is defined for lists, strings and dicts and raises TypeError otherwise
HasLen(v) == v.t \in {"list", "str", "dict"}
PyLen(v) ==
    CASE v.t = "list" -> Len(v.l)
      [] v.t = "str" -> IF "s" \in DOMAIN v THEN Len(v.s) ELSE 26
      [] v.t = "dict" -> Cardinality(DOMAIN v.d) + Cardinality(DOMAIN v.ik)
      [] OTHER -> 0

\* v[-n:] for a list or a string v (the strings of the model that reach a
\* slice are one character long)
PyLast(v, n) ==
    IF v.t = "list" THEN ListV(PySliceFrom(v.l, 0 - n)) ELSE v

\* iter(v): lists yield their items, dicts their keys, strings their
\* characters (the strings of the model that are iterated are one character
\* long); None and integers raise TypeError
Iterable(v) == v.t \in {"list", "str", "dict"}
SetToSeq(S) == CHOOSE q \in [1..Cardinality(S) -> S] : \A x \in S : \E i \in DOMAIN q : q[i] = x
PyIter(v) ==
    CASE v.t = "list" -> v.l
      [] v.t = "str" -> IF Truthy(v) THEN <<v>> ELSE <<>>
      [] v.t = "dict" -> SetToSeq({StrV(k) : k \in DOMAIN v.d})
      [] OTHER -> <<>>

\* The message dict add_message builds (lines 69-74)
Message(role, content, now, metadata) ==
    DictV([role |-> StrV(role), content |-> StrV(content), timestamp |-> TimeV(now),
           metadata |-> IF Truthy(metadata) THEN metadata ELSE EmptyDict])

\* The check of _load_history's comprehension (line 209)
\* (mutant) the check forgets the content field
ValidMessageRoleOnly(msg) == IsDict(msg) /\ "role" \in DOMAIN msg.d
ValidMessage(msg) == IsDict(msg) /\ "role" \in DOMAIN msg.d /\ "content" \in DOMAIN msg.d

\* history.append(message) followed by the trim of lines 79-80
TrimNeeded(h, max) == PyLen(h) > max
\* (mutant) history[:max]: the trim keeps the oldest messages
TrimmedOldest(h, max) == IF PyLen(h) > max THEN ListV(SubSeq(h.l, 1, max)) ELSE h
Trimmed(h, max) == IF TrimNeeded(h, max) THEN PyLast(h, max) ELSE h
\* (mutant) the message overwrites the last slot instead of being appended
AppendedOver(h, msg) ==
    ListV(IF Len(h.l) = 0 THEN <<msg>> ELSE [h.l EXCEPT ![Len(h.l)] = msg])
Appended(h, msg) == ListV(Append(h.l, msg))

\* The dict _save_to_file dumps (lines 179-184)
\* (mutant) message_count counts the message being added once more
SaveDataCountsAdded(agent, now, h) ==
    DictV([agent_name |-> StrV(agent), saved_at |-> TimeV(now),
           message_count |-> IntV(PyLen(h) + 1), history |-> h])
SaveData(agent, now, h) ==
    DictV([agent_name |-> StrV(agent), saved_at |-> TimeV(now),
           message_count |-> IntV(PyLen(h)), history |-> h])

(***************************************************************************)
(* _load_history as a function of what the history file holds: the value   *)
(* self.history is left with and the exception that was caught, if any.    *)
(***************************************************************************)
Loaded(h, exc) == [history |-> h, exc |-> exc]
\* (mutant) the loaded list is never assigned to self.history
LoadHistoryUnassigned(content) == [history |-> EmptyList, exc |-> "none"]
LoadHistory(content) ==
    CASE content.f = "absent" -> Loaded(EmptyList, "none")
      [] content.f = "unreadable" -> Loaded(EmptyList, "OSError")
      [] content.f \in {"partial", "garbage"} -> Loaded(EmptyList, "JSONDecodeError")
      [] content.f = "json" ->
            LET data == FromJson(content.doc) IN
            IF ~IsDict(data) THEN Loaded(EmptyList, "AttributeError")
            ELSE LET h == IF "history" \in DOMAIN data.d THEN data.d.history ELSE EmptyList IN
                 IF ~Iterable(h) THEN Loaded(h, "TypeError")
                 ELSE Loaded(ListV(SelectSeq(PyIter(h), ValidMessage)), "none")

(***************************************************************************)
(* State.                                                                  *)
(***************************************************************************)
VARIABLES
    alive,              \* alive[m]: manager object m has been constructed
    agent_name,         \* self.agent_name
    auto_save,          \* self.auto_save
    max_history_size,   \* self.max_history_size
    history,            \* self.history
    lock,               \* self._lock: "free" or the thread that holds it
    files,              \* what every path of the history directory holds
    now,                \* the wall clock, in seconds
    pc,                 \* pc[t]: where thread t is in the method it runs
    call,               \* call[t]: the method thread t runs and its arguments
    sv,                 \* sv[t]: the _save_to_file call thread t is in
    calls,              \* number of method calls issued so far
    added,              \* added[m]: the messages add_message appended to m and the
                        \* threads that did, in order (kept while only add_message
                        \* has been called on m)
    issued,             \* issued[m]: bag of the (role, content) add_message was called
                        \* with (kept while only add_message has been called on m)
    track,              \* track[m]: m started with an empty history (empty), only
                        \* add_message was called on it (onlyAdds), a save of its
                        \* history file failed (saveFailed)
    exported,           \* the history the export file was last written from
    ev,                 \* the step just taken
    \* GPSFabricConnector (src/src/actions/gps/connector/fabric.py)
    io_provider,        \* the dynamic variables of the IO provider
    max_retries,        \* self.max_retries
    fabric_pc,          \* where the connector is in send_coordinates
    coordinates,        \* what _get_coordinates returned
    attempt_number,     \* the attempt of _send_request the retry loop is at
    posts,              \* the JSON bodies POSTed to the endpoint by this call
    response,           \* the response _send_request returned
    connecting,         \* the connect call in progress: its action, and how often
                        \* it called send_coordinates and _get_coordinates
    \* the simulator loader (src/src/simulators/__init__.py)
    plugins_dir,        \* the plugins directory: absent, or its files in listing order
    plugin_modules,     \* what importing simulators.plugins.<name> yields
    find_calls,         \* the arguments find_module_with_class was called with
    import_calls,       \* the modules passed to importlib.import_module
    instances           \* the simulator objects that were constructed

historyVars == <<alive, agent_name, auto_save, max_history_size, history, lock, files,
                 now, pc, call, sv, calls, added, issued, track, exported>>
fabricVars == <<io_provider, max_retries, fabric_pc, coordinates, attempt_number,
                posts, response, connecting>>
simVars == <<plugins_dir, plugin_modules, find_calls, import_calls, instances>>

vars == <<historyVars, ev, fabricVars, simVars>>

mgrVars == <<alive, agent_name, auto_save, max_history_size>>

NoCall == [op |-> "none"]
NoSave == [active |-> FALSE]
NoEv == [op |-> "none"]

NoFiles == [p \in Paths |-> Absent]
NoConnect == [active |-> FALSE]

HistoryInit(fs) ==
    /\ alive = [m \in Mgrs |-> FALSE]
    /\ agent_name = [m \in Mgrs |-> "bot"]
    /\ auto_save = [m \in Mgrs |-> FALSE]
    /\ max_history_size = [m \in Mgrs |-> 0]
    /\ history = [m \in Mgrs |-> EmptyList]
    /\ lock = [m \in Mgrs |-> "free"]
    /\ files = fs
    /\ now = 0
    /\ pc = [t \in Threads |-> "idle"]
    /\ call = [t \in Threads |-> NoCall]
    /\ sv = [t \in Threads |-> NoSave]
    /\ calls = 0
    /\ added = [m \in Mgrs |-> <<>>]
    /\ issued = [m \in Mgrs |-> EmptyBag]
    /\ track = [m \in Mgrs |-> [empty |-> FALSE, onlyAdds |-> FALSE, saveFailed |-> FALSE]]
    /\ exported = NoneV
    /\ ev = NoEv

\* No connector has been constructed
NoFabric ==
    /\ io_provider = [latitude |-> NoneV, longitude |-> NoneV, yaw_deg |-> NoneV]
    /\ max_retries = 3
    /\ fabric_pc = "none"
    /\ coordinates = NoneV
    /\ attempt_number = 0
    /\ posts = <<>>
    /\ response = NoneV
    /\ connecting = NoConnect

\* The simulator loader is not used
NoSimulators ==
    /\ plugins_dir = [exists |-> FALSE, files |-> <<>>]
    /\ plugin_modules = <<>>
    /\ find_calls = <<>>
    /\ import_calls = <<>>
    /\ instances = <<>>

InitWith(fs) == HistoryInit(fs) /\ NoFabric /\ NoSimulators

Init == InitWith(NoFiles)

\* m started empty and only add_message has been called on it
Fresh(m) == track[m].empty /\ track[m].onlyAdds

\* No thread is inside a method of manager m
Quiescent(m) == \A t \in Threads : call[t].op # "none" => call[t].m # m

(***************************************************************************)
(* __init__ (lines 20-52): the fields are set, the history starts empty    *)
(* and _load_history replaces it by what the history file yields.          *)
(***************************************************************************)
\* Line 52 formats len(self.history) into the log message: a history that
\* has no len raises TypeError out of the constructor
InitRaises(content) == ~HasLen(LoadHistory(content).history)

\* The fields of a newly constructed manager m
NewManager(m, a, as, max) ==
    /\ alive' = [alive EXCEPT ![m] = TRUE]
    /\ agent_name' = [agent_name EXCEPT ![m] = a]
    /\ auto_save' = [auto_save EXCEPT ![m] = as]
    /\ max_history_size' = [max_history_size EXCEPT ![m] = max]
    /\ history' = [history EXCEPT ![m] = LoadHistory(files[HistoryFile(a)]).history]
    /\ lock' = [lock EXCEPT ![m] = "free"]
    /\ added' = [added EXCEPT ![m] = <<>>]
    /\ issued' = [issued EXCEPT ![m] = EmptyBag]
    /\ track' = [track EXCEPT ![m] =
                    [empty |-> LoadHistory(files[HistoryFile(a)]).history = EmptyList,
                     onlyAdds |-> TRUE, saveFailed |-> FALSE]]

\* m = ConversationHistoryManager(a, as, max): when the constructor raises,
\* m stays bound to what it was bound to before
Construct(m, a, as, max) ==
    /\ Quiescent(m)
    /\ \A t \in Threads : pc[t] # "dead"
    /\ IF InitRaises(files[HistoryFile(a)])
       THEN /\ ev' = [op |-> "init", m |-> m, src |-> files[HistoryFile(a)],
                      exc |-> "TypeError"]
            /\ UNCHANGED <<alive, agent_name, auto_save, max_history_size, history, lock,
                           added, issued, track>>
       ELSE /\ NewManager(m, a, as, max)
            /\ ev' = [op |-> "init", m |-> m, src |-> files[HistoryFile(a)],
                      exc |-> "none"]
    /\ UNCHANGED <<files, now, pc, call, sv, calls, exported>>
    /\ UNCHANGED <<fabricVars, simVars>>

\* One second passes
Tick ==
    /\ now < MaxClock
    /\ now' = now + 1
    /\ ev' = NoEv
    /\ UNCHANGED <<alive, agent_name, auto_save, max_history_size, history, lock,
                   files, pc, call, sv, calls, added, issued, track, exported>>
    /\ UNCHANGED <<fabricVars, simVars>>

(***************************************************************************)
(* The lock: `with self._lock` blocks until the lock is free.              *)
(***************************************************************************)
\* (mutant) a lock that never blocks
LockFreeAlways(m) == TRUE
LockFree(m) == lock[m] = "free"

Acquire(t, next) ==
    /\ LockFree(call[t].m)
    /\ lock' = [lock EXCEPT ![call[t].m] = t]
    /\ pc' = [pc EXCEPT ![t] = next]

\* Leaving the with block, normally or by an exception, releases the lock
\* (mutant) the lock is never given back
ReleasedNever(t) == lock
Released(t) == [lock EXCEPT ![call[t].m] = "free"]

\* The method returns (exc = "none") or raises exc to its caller
Return(t, exc) ==
    /\ pc' = [pc EXCEPT ![t] = "idle"]
    /\ call' = [call EXCEPT ![t] = NoCall]
    /\ sv' = [sv EXCEPT ![t] = NoSave]
    /\ ev' = [op |-> "return", of |-> call[t].op, m |-> call[t].m, t |-> t, exc |-> exc]

(***************************************************************************)
(* _save_to_file (lines 177-192), entered from _save_history (caught =     *)
(* TRUE: lines 171-175 log the exception and go on) or directly (caught =  *)
(* FALSE: the exception leaves the method).  ret is where the caller goes  *)
(* on; prev is what the target held when the save began.                   *)
(***************************************************************************)
\* (mutant) the save writes the target file in place
TempFileInPlace(filepath) == filepath
TempFile(filepath) == WithSuffix(filepath, "tmp")

SaveFrame(t, filepath, caught, ret) ==
    [active |-> TRUE, target |-> filepath, caught |-> caught, ret |-> ret,
     prev |-> files[filepath], doc |-> JNull]

\* An exception inside _save_to_file: _save_history swallows it, any other
\* caller lets it leave the with block, which releases the lock
\* (mutant) no caller catches the exception
SaveRaiseUncaught(t, exc) ==
    /\ lock' = Released(t)
    /\ Return(t, exc)
    /\ UNCHANGED track
SaveRaise(t, exc) ==
    IF sv[t].caught
    THEN /\ pc' = [pc EXCEPT ![t] = sv[t].ret]
         /\ sv' = [sv EXCEPT ![t] = NoSave]
         /\ ev' = [op |-> "savefailed", m |-> call[t].m, t |-> t, exc |-> exc]
         /\ track' = [track EXCEPT ![call[t].m].saveFailed = TRUE]
         /\ UNCHANGED <<call, lock>>
    ELSE /\ lock' = Released(t)
         /\ Return(t, exc)
         /\ UNCHANGED track

\* lines 179-188: build the data, open the temp file for writing
SaveOpen(t) ==
    /\ pc[t] = "save_open"
    /\ LET m == call[t].m IN
       IF ~HasLen(history[m])
       THEN /\ SaveRaise(t, "TypeError")
            /\ UNCHANGED files
       ELSE /\ files' = [files EXCEPT ![TempFile(sv[t].target)] = Partial]
            /\ UNCHANGED track
            /\ sv' = [sv EXCEPT ![t].doc = ToJson(SaveData(agent_name[m], now, history[m]))]
            /\ pc' = [pc EXCEPT ![t] = "save_write"]
            /\ ev' = [op |-> "write", m |-> m, t |-> t, path |-> TempFile(sv[t].target)]
            /\ UNCHANGED <<call, lock>>
    /\ UNCHANGED <<mgrVars, history, now, calls, added, issued, exported>>
    /\ UNCHANGED <<fabricVars, simVars>>

\* line 189: json.dump writes the whole document and the file is closed
SaveWrite(t) ==
    /\ pc[t] = "save_write"
    /\ files' = [files EXCEPT ![TempFile(sv[t].target)] = Text(sv[t].doc)]
    /\ pc' = [pc EXCEPT ![t] = "save_rename"]
    /\ ev' = [op |-> "write", m |-> call[t].m, t |-> t, path |-> TempFile(sv[t].target)]
    /\ UNCHANGED <<mgrVars, history, lock, now, call, sv, calls, added, issued, track, exported>>
    /\ UNCHANGED <<fabricVars, simVars>>

\* line 189: the write fails part-way (disk full, I/O error)
SaveWriteFail(t) ==
    /\ pc[t] = "save_write"
    /\ SaveRaise(t, "OSError")
    /\ UNCHANGED <<mgrVars, history, files, now, calls, added, issued, exported>>
    /\ UNCHANGED <<fabricVars, simVars>>

\* line 192: temp_file.replace(filepath)
SaveRename(t) ==
    /\ pc[t] = "save_rename"
    /\ LET temp == TempFile(sv[t].target) IN
       files' = [p \in Paths |->
                    IF p = sv[t].target THEN files[temp]
                    ELSE IF p = temp THEN Absent
                    ELSE files[p]]
    /\ pc' = [pc EXCEPT ![t] = sv[t].ret]
    /\ sv' = [sv EXCEPT ![t] = NoSave]
    /\ ev' = [op |-> "saved", m |-> call[t].m, t |-> t, path |-> sv[t].target]
    /\ exported' = IF sv[t].target.kind = "export" THEN history[call[t].m] ELSE exported
    /\ UNCHANGED <<mgrVars, history, lock, now, call, calls, added, issued, track>>
    /\ UNCHANGED <<fabricVars, simVars>>

\* The end of a with block that was left normally, and the method's return
Unlock(t) ==
    /\ pc[t] = "unlock"
    /\ lock' = Released(t)
    /\ Return(t, "none")
    /\ UNCHANGED <<mgrVars, history, files, now, calls, added, issued, track, exported>>
    /\ UNCHANGED <<fabricVars, simVars>>

(***************************************************************************)
(* add_message (lines 59-85)                                               *)
(***************************************************************************)
AddCall(t, m, role, content, metadata) ==
    /\ pc[t] = "idle"
    /\ alive[m]
    /\ calls < MaxCalls
    /\ calls' = calls + 1
    /\ pc' = [pc EXCEPT ![t] = "add_lock"]
    /\ call' = [call EXCEPT ![t] = [op |-> "add_message", m |-> m, role |-> role,
                                    content |-> content, metadata |-> metadata]]
    /\ issued' = [issued EXCEPT ![m] =
                     IF track[m].onlyAdds THEN @ (+) SetToBag({<<role, content>>}) ELSE @]
    /\ ev' = NoEv
    /\ UNCHANGED <<mgrVars, history, lock, files, now, sv, added, track, exported>>
    /\ UNCHANGED <<fabricVars, simVars>>

\* line 68
AddAcquire(t) ==
    /\ pc[t] = "add_lock"
    /\ Acquire(t, "add_append")
    /\ ev' = NoEv
    /\ UNCHANGED <<mgrVars, history, files, now, call, sv, calls, added, issued, track, exported>>
    /\ UNCHANGED <<fabricVars, simVars>>

\* lines 69-85: build the message, append it, trim, and save when auto_save
AddAppend(t) ==
    /\ pc[t] = "add_append"
    /\ LET m == call[t].m
           msg == Message(call[t].role, call[t].content, now, call[t].metadata)
       IN  IF ~IsList(history[m])
           THEN \* self.history has no append
                /\ lock' = Released(t)
                /\ Return(t, "AttributeError")
                /\ UNCHANGED <<history, added>>
           ELSE /\ history' = [history EXCEPT ![m] =
                                  Trimmed(Appended(@, msg), max_history_size[m])]
                /\ added' = [added EXCEPT ![m] =
                                IF track[m].onlyAdds THEN Append(@, [msg |-> msg, by |-> t])
                                ELSE @]
                /\ ev' = [op |-> "append", m |-> m, t |-> t]
                /\ IF auto_save[m]
                   THEN /\ pc' = [pc EXCEPT ![t] = "save_open"]
                        /\ sv' = [sv EXCEPT ![t] =
                                     SaveFrame(t, HistoryFile(agent_name[m]), TRUE, "unlock")]
                   ELSE /\ pc' = [pc EXCEPT ![t] = "unlock"]
                        /\ sv' = sv
                /\ UNCHANGED <<call, lock>>
    /\ UNCHANGED <<mgrVars, files, now, calls, issued, track, exported>>
    /\ UNCHANGED <<fabricVars, simVars>>

(***************************************************************************)
(* clear_history (lines 152-167)                                           *)
(***************************************************************************)
NotOnlyAdds(m) == [track EXCEPT ![m].onlyAdds = FALSE]

ClearCall(t, m, save_backup) ==
    /\ pc[t] = "idle"
    /\ alive[m]
    /\ calls < MaxCalls
    /\ calls' = calls + 1
    /\ pc' = [pc EXCEPT ![t] = "clear_lock"]
    /\ call' = [call EXCEPT ![t] = [op |-> "clear_history", m |-> m,
                                    save_backup |-> save_backup, backup_file |-> NoPath]]
    /\ track' = NotOnlyAdds(m)
    /\ added' = [added EXCEPT ![m] = <<>>]
    /\ issued' = [issued EXCEPT ![m] = EmptyBag]
    /\ ev' = NoEv
    /\ UNCHANGED <<mgrVars, history, lock, files, now, sv, exported>>
    /\ UNCHANGED <<fabricVars, simVars>>

\* line 159
ClearAcquire(t) ==
    /\ pc[t] = "clear_lock"
    /\ Acquire(t, "clear_backup")
    /\ ev' = NoEv
    /\ UNCHANGED <<mgrVars, history, files, now, call, sv, calls, added, issued, track, exported>>
    /\ UNCHANGED <<fabricVars, simVars>>

\* lines 160-163: a truthy history is saved to the backup file first
\* (mutant) the backup is never taken
BackupWantedNever(t) == call[t].save_backup /\ ~Truthy(history[call[t].m])
BackupWanted(t) == call[t].save_backup /\ Truthy(history[call[t].m])

ClearBackup(t) ==
    /\ pc[t] = "clear_backup"
    /\ IF BackupWanted(t)
       THEN /\ pc' = [pc EXCEPT ![t] = "save_open"]
            /\ call' = [call EXCEPT ![t].backup_file = BackupFile(agent_name[call[t].m], now)]
            /\ sv' = [sv EXCEPT ![t] =
                         SaveFrame(t, BackupFile(agent_name[call[t].m], now), FALSE,
                                   "clear_empty")]
       ELSE /\ pc' = [pc EXCEPT ![t] = "clear_empty"]
            /\ UNCHANGED <<call, sv>>
    /\ ev' = NoEv
    /\ UNCHANGED <<mgrVars, history, lock, files, now, calls, added, issued, track, exported>>
    /\ UNCHANGED <<fabricVars, simVars>>

\* lines 165-166: empty the history and save it
\* (mutant) the cleared history is saved only when auto_save is set
ClearEmptyAutoSave(t) ==
    /\ pc[t] = "clear_empty"
    /\ LET m == call[t].m IN
       /\ history' = [history EXCEPT ![m] = EmptyList]
       /\ sv' = IF auto_save[m]
                THEN [sv EXCEPT ![t] = SaveFrame(t, HistoryFile(agent_name[m]), TRUE, "unlock")]
                ELSE sv
       /\ pc' = [pc EXCEPT ![t] = IF auto_save[m] THEN "save_open" ELSE "unlock"]
       /\ ev' = [op |-> "cleared", m |-> m, t |-> t, pre |-> history[m],
                 save_backup |-> call[t].save_backup, backup_file |-> call[t].backup_file]
    /\ UNCHANGED <<mgrVars, lock, files, now, call, calls, added, issued, track, exported>>
    /\ UNCHANGED <<fabricVars, simVars>>
ClearEmpty(t) ==
    /\ pc[t] = "clear_empty"
    /\ LET m == call[t].m IN
       /\ history' = [history EXCEPT ![m] = EmptyList]
       /\ sv' = [sv EXCEPT ![t] = SaveFrame(t, HistoryFile(agent_name[m]), TRUE, "unlock")]
       /\ ev' = [op |-> "cleared", m |-> m, t |-> t, pre |-> history[m],
                 save_backup |-> call[t].save_backup, backup_file |-> call[t].backup_file]
    /\ pc' = [pc EXCEPT ![t] = "save_open"]
    /\ UNCHANGED <<mgrVars, lock, files, now, call, calls, added, issued, track, exported>>
    /\ UNCHANGED <<fabricVars, simVars>>

(***************************************************************************)
(* export_history (lines 221-231)                                          *)
(***************************************************************************)
ExportCall(t, m, filepath) ==
    /\ pc[t] = "idle"
    /\ alive[m]
    /\ calls < MaxCalls
    /\ calls' = calls + 1
    /\ pc' = [pc EXCEPT ![t] = "export_lock"]
    /\ call' = [call EXCEPT ![t] = [op |-> "export_history", m |-> m,
                                    filepath |-> filepath]]
    /\ ev' = NoEv
    /\ UNCHANGED <<mgrVars, history, lock, files, now, sv, added, issued, track, exported>>
    /\ UNCHANGED <<fabricVars, simVars>>

\* lines 228-230: take the lock and save to the export path
ExportAcquire(t) ==
    /\ pc[t] = "export_lock"
    /\ Acquire(t, "save_open")
    /\ sv' = [sv EXCEPT ![t] = SaveFrame(t, call[t].filepath, FALSE, "unlock")]
    /\ ev' = NoEv
    /\ UNCHANGED <<mgrVars, history, files, now, call, calls, added, issued, track, exported>>
    /\ UNCHANGED <<fabricVars, simVars>>

(***************************************************************************)
(* import_history (lines 233-266)                                          *)
(***************************************************************************)
ImportCall(t, m, filepath, append) ==
    /\ pc[t] = "idle"
    /\ alive[m]
    /\ calls < MaxCalls
    /\ calls' = calls + 1
    /\ pc' = [pc EXCEPT ![t] = "import_read"]
    /\ call' = [call EXCEPT ![t] = [op |-> "import_history", m |-> m,
                                    filepath |-> filepath, append |-> append,
                                    imported |-> NoneV, source |-> NoneV]]
    /\ track' = NotOnlyAdds(m)
    /\ added' = [added EXCEPT ![m] = <<>>]
    /\ issued' = [issued EXCEPT ![m] = EmptyBag]
    /\ ev' = NoEv
    /\ UNCHANGED <<mgrVars, history, lock, files, now, sv, exported>>
    /\ UNCHANGED <<fabricVars, simVars>>

\* What lines 242-250 make of the import file: the value of imported_history,
\* or the reason there is none
Imported(ok, h, why) == [ok |-> ok, history |-> h, why |-> why]
ReadImport(content) ==
    CASE content.f = "absent" -> Imported(FALSE, NoneV, "not found")
      [] content.f = "unreadable" -> Imported(FALSE, NoneV, "OSError")
      [] content.f \in {"partial", "garbage"} -> Imported(FALSE, NoneV, "JSONDecodeError")
      [] content.f = "json" ->
            LET data == FromJson(content.doc) IN
            IF ~IsDict(data) THEN Imported(FALSE, NoneV, "AttributeError")
            ELSE Imported(TRUE,
                          IF "history" \in DOMAIN data.d THEN data.d.history ELSE EmptyList,
                          "none")

\* lines 241-250, outside the lock.  A missing file is reported and the
\* method returns; an exception is caught at line 265 and the method returns
ImportRead(t) ==
    /\ pc[t] = "import_read"
    /\ LET r == ReadImport(files[call[t].filepath]) IN
       IF r.ok
       THEN /\ pc' = [pc EXCEPT ![t] = "import_lock"]
            /\ call' = [call EXCEPT ![t].imported = r.history,
                                    ![t].source = exported]
            /\ sv' = sv
            /\ ev' = NoEv
       ELSE Return(t, "none")
    /\ UNCHANGED <<mgrVars, history, lock, files, now, calls, added, issued, track, exported>>
    /\ UNCHANGED <<fabricVars, simVars>>

\* line 252
ImportAcquire(t) ==
    /\ pc[t] = "import_lock"
    /\ Acquire(t, "import_apply")
    /\ ev' = NoEv
    /\ UNCHANGED <<mgrVars, history, files, now, call, sv, calls, added, issued, track,
                   exported>>
    /\ UNCHANGED <<fabricVars, simVars>>

\* lines 253-256: what self.history is after the extend or the assignment,
\* and whether the statement raised
Applied(ok, h) == [ok |-> ok, history |-> h]
\* (mutant) the import always extends the history
ApplyImportExtends(h, imported, append) ==
    IF IsList(h) /\ Iterable(imported)
    THEN [ok |-> TRUE, history |-> ListV(h.l \o PyIter(imported))]
    ELSE [ok |-> FALSE, history |-> h]
ApplyImport(h, imported, append) ==
    IF append
    THEN IF IsList(h) /\ Iterable(imported)
         THEN Applied(TRUE, ListV(h.l \o PyIter(imported)))
         ELSE Applied(FALSE, h)
    ELSE Applied(TRUE, imported)

\* lines 253-262.  An exception leaves the with block (the lock is released)
\* and is caught at line 265
ImportApply(t) ==
    /\ pc[t] = "import_apply"
    /\ LET m == call[t].m
           a == ApplyImport(history[m], call[t].imported, call[t].append)
       IN  /\ ev' = [op |-> "imported", m |-> m, t |-> t, pre |-> history[m],
                     imported |-> call[t].imported, append |-> call[t].append,
                     source |-> call[t].source]
           /\ IF a.ok /\ HasLen(a.history)
              THEN /\ history' = [history EXCEPT ![m] = Trimmed(a.history, max_history_size[m])]
                   /\ pc' = [pc EXCEPT ![t] = "save_open"]
                   /\ sv' = [sv EXCEPT ![t] =
                                SaveFrame(t, HistoryFile(agent_name[m]), TRUE, "unlock")]
                   /\ UNCHANGED <<lock, call>>
              ELSE /\ history' = [history EXCEPT ![m] = a.history]
                   /\ lock' = Released(t)
                   /\ pc' = [pc EXCEPT ![t] = "idle"]
                   /\ call' = [call EXCEPT ![t] = NoCall]
                   /\ sv' = sv
    /\ UNCHANGED <<mgrVars, files, now, calls, added, issued, track, exported>>
    /\ UNCHANGED <<fabricVars, simVars>>

(***************************************************************************)
(* get_history (lines 87-113) and get_formatted_history (lines 115-150).   *)
(* Both work on a copy of self.history under the lock and return a new     *)
(* list; an exception leaves the with block, which releases the lock.      *)
(***************************************************************************)
Got(value, exc) == [value |-> value, exc |-> exc]

\* msg[key] for an entry of the history: entries that are not dicts cannot be
\* indexed by a string (TypeError), dicts without the key raise KeyError
ItemError(msg, key) ==
    IF ~IsDict(msg) THEN "TypeError"
    ELSE IF key \notin DOMAIN msg.d THEN "KeyError"
    ELSE "none"

\* The exception of the first entry of l whose keys cannot be read, if any
FirstItemError(l, keys) ==
    LET bad == {i \in DOMAIN l : \E k \in keys : ItemError(l[i], k) # "none"}
    IN  IF bad = {} THEN "none"
        ELSE LET i == CHOOSE j \in bad : \A k \in bad : j <= k
                 k1 == CHOOSE k \in keys : ItemError(l[i], k) # "none"
             IN  ItemError(l[i], k1)

\* lines 110-111 and 138-139: `if limit: history = history[-limit:]`
Limited(l, limit) == IF Truthy(limit) THEN PySliceFrom(l, 0 - limit.n) ELSE l

\* lines 106-107: `if role_filter:` keeps the messages of that role
RoleIs(msg, role_filter) == msg.d.role = role_filter
RoleFiltered(l, role_filter) ==
    IF Truthy(role_filter) THEN SelectSeq(l, LAMBDA msg : RoleIs(msg, role_filter)) ELSE l

\* line 103 works on self.history.copy(), and the comprehension of line 107
\* and the slice of line 111 build new lists: the list get_history returns
\* is never the object self.history
ReturnsHistoryItself(limit, role_filter) == FALSE

\* get_history(limit, role_filter) on the history h
\* (mutant) the limit is applied before the role filter
GetHistoryLimitFirst(h, limit, role_filter) ==
    IF ~IsList(h) /\ ~IsDict(h) THEN Got(NoneV, "AttributeError")
    ELSE IF IsDict(h) THEN
        IF Truthy(role_filter) /\ Truthy(h) THEN Got(NoneV, "TypeError")
        ELSE IF Truthy(limit) THEN Got(NoneV, "TypeError")
        ELSE Got(h, "none")
    ELSE IF Truthy(role_filter) /\ FirstItemError(h.l, {"role"}) # "none"
         THEN Got(NoneV, FirstItemError(h.l, {"role"}))
    ELSE Got(ListV(RoleFiltered(Limited(h.l, limit), role_filter)), "none")
GetHistory(h, limit, role_filter) ==
    IF ~IsList(h) /\ ~IsDict(h) THEN Got(NoneV, "AttributeError")     \* no .copy()
    ELSE IF IsDict(h) THEN
        \* a dict has a copy; iterating it yields its keys, slicing it raises
        IF Truthy(role_filter) /\ Truthy(h) THEN Got(NoneV, "TypeError")
        ELSE IF Truthy(limit) THEN Got(NoneV, "TypeError")
        ELSE Got(h, "none")
    ELSE IF Truthy(role_filter) /\ FirstItemError(h.l, {"role"}) # "none"
         THEN Got(NoneV, FirstItemError(h.l, {"role"}))
    ELSE Got(ListV(Limited(RoleFiltered(h.l, role_filter), limit)), "none")

\* lines 134-135: without include_system the system messages are dropped
NotSystem(msg) == msg.d.role # StrV("system")
SystemFiltered(l, include_system) ==
    IF include_system THEN l ELSE SelectSeq(l, NotSystem)

\* lines 142-148: the record handed to the LLM
\* (mutant) the whole message is handed over
FormattedAll(msg) == msg
Formatted(msg) == DictV([role |-> msg.d.role, content |-> msg.d.content])

\* get_formatted_history(limit, include_system) on the history h
GetFormattedHistory(h, limit, include_system) ==
    IF ~IsList(h) /\ ~IsDict(h) THEN Got(NoneV, "AttributeError")
    ELSE IF IsDict(h) THEN
        IF Truthy(h) \/ Truthy(limit) THEN Got(NoneV, "TypeError") ELSE Got(EmptyList, "none")
    ELSE IF ~include_system /\ FirstItemError(h.l, {"role"}) # "none"
         THEN Got(NoneV, FirstItemError(h.l, {"role"}))
    ELSE LET selected == Limited(SystemFiltered(h.l, include_system), limit)
         IN  IF FirstItemError(selected, {"role", "content"}) # "none"
             THEN Got(NoneV, FirstItemError(selected, {"role", "content"}))
             ELSE Got(ListV([i \in DOMAIN selected |-> Formatted(selected[i])]), "none")

GetHistoryCall(t, m, limit, role_filter) ==
    /\ pc[t] = "idle"
    /\ alive[m]
    /\ calls < MaxCalls
    /\ calls' = calls + 1
    /\ pc' = [pc EXCEPT ![t] = "get_lock"]
    /\ call' = [call EXCEPT ![t] = [op |-> "get_history", m |-> m, limit |-> limit,
                                    role_filter |-> role_filter]]
    /\ ev' = NoEv
    /\ UNCHANGED <<mgrVars, history, lock, files, now, sv, added, issued, track, exported>>
    /\ UNCHANGED <<fabricVars, simVars>>

GetFormattedCall(t, m, limit, include_system) ==
    /\ pc[t] = "idle"
    /\ alive[m]
    /\ calls < MaxCalls
    /\ calls' = calls + 1
    /\ pc' = [pc EXCEPT ![t] = "get_lock"]
    /\ call' = [call EXCEPT ![t] = [op |-> "get_formatted_history", m |-> m,
                                    limit |-> limit, include_system |-> include_system]]
    /\ ev' = NoEv
    /\ UNCHANGED <<mgrVars, history, lock, files, now, sv, added, issued, track, exported>>
    /\ UNCHANGED <<fabricVars, simVars>>

\* lines 102 and 130
GetAcquire(t) ==
    /\ pc[t] = "get_lock"
    /\ Acquire(t, "get_read")
    /\ ev' = NoEv
    /\ UNCHANGED <<mgrVars, history, files, now, call, sv, calls, added, issued, track, exported>>
    /\ UNCHANGED <<fabricVars, simVars>>

\* lines 103-113 and 131-150: compute the list, leave the with block, return
GetRead(t) ==
    /\ pc[t] = "get_read"
    /\ LET m == call[t].m
           got == IF call[t].op = "get_history"
                  THEN GetHistory(history[m], call[t].limit, call[t].role_filter)
                  ELSE GetFormattedHistory(history[m], call[t].limit, call[t].include_system)
       IN  ev' = [op |-> "return", of |-> call[t].op, m |-> m, t |-> t, exc |-> got.exc,
                  args |-> call[t], result |-> got.value,
                  itself |-> (call[t].op = "get_history"
                                 /\ ReturnsHistoryItself(call[t].limit, call[t].role_filter)),
                  pre |-> history[m], prefiles |-> files]
    /\ lock' = Released(t)
    /\ pc' = [pc EXCEPT ![t] = "idle"]
    /\ call' = [call EXCEPT ![t] = NoCall]
    /\ UNCHANGED <<mgrVars, history, files, now, sv, calls, added, issued, track, exported>>
    /\ UNCHANGED <<fabricVars, simVars>>

\* The caller of get_history appends an element to the list it was handed,
\* or removes its last element.  A list that is the object self.history
\* changes the manager's history with it.
ListChanges(l) ==
    {Append(l, Message("user", "b", 0, NoneV))}
        \cup (IF l = <<>> THEN {} ELSE {SubSeq(l, 1, Len(l) - 1)})
CallerChangesResult(t) ==
    /\ pc[t] = "idle"
    /\ ev.op = "return" /\ ev.of = "get_history" /\ ev.t = t
    /\ ev.exc = "none" /\ IsList(ev.result)
    /\ \E l \in ListChanges(ev.result.l) :
          /\ ev' = [op |-> "changed", of |-> ev.of, m |-> ev.m, t |-> t,
                    returned |-> ev.result, result |-> ListV(l), pre |-> ev.pre]
          /\ history' = IF ev.itself THEN [history EXCEPT ![ev.m] = ListV(l)] ELSE history
    /\ UNCHANGED <<mgrVars, lock, files, now, pc, call, sv, calls, added, issued, track,
                   exported>>
    /\ UNCHANGED <<fabricVars, simVars>>

(***************************************************************************)
(* The process dies: its threads and manager objects are gone, the files   *)
(* stay as they are.  sv keeps what each thread was saving when it died.   *)
(***************************************************************************)
Crash ==
    /\ \E t \in Threads : pc[t] \notin {"idle", "dead"}
    /\ pc' = [t \in Threads |-> "dead"]
    /\ call' = [t \in Threads |-> NoCall]
    /\ alive' = [m \in Mgrs |-> FALSE]
    /\ lock' = [m \in Mgrs |-> "free"]
    /\ history' = [m \in Mgrs |-> EmptyList]
    /\ added' = [m \in Mgrs |-> <<>>]
    /\ issued' = [m \in Mgrs |-> EmptyBag]
    /\ track' = [m \in Mgrs |-> [empty |-> FALSE, onlyAdds |-> FALSE, saveFailed |-> FALSE]]
    /\ ev' = [op |-> "crash"]
    /\ UNCHANGED <<agent_name, auto_save, max_history_size, files, now, sv, calls, exported>>
    /\ UNCHANGED <<fabricVars, simVars>>

\* A new process starts and constructs manager m (__init__, lines 20-52)
Restart(m, a, as, max) ==
    /\ \A t \in Threads : pc[t] = "dead"
    /\ ~InitRaises(files[HistoryFile(a)])
    /\ NewManager(m, a, as, max)
    /\ pc' = [t \in Threads |-> "idle"]
    /\ sv' = [t \in Threads |-> NoSave]
    /\ ev' = [op |-> "restart", m |-> m, src |-> files[HistoryFile(a)],
              saving |-> {sv[t] : t \in {u \in Threads : sv[u].active}}]
    /\ UNCHANGED <<files, now, call, calls, exported>>
    /\ UNCHANGED <<fabricVars, simVars>>

(***************************************************************************)
(* Inputs.                                                                 *)
(***************************************************************************)
Roles == {"user", "system"}
Contents == {"a", "b"}
Sizes == 0..MaxSize
\* metadata arguments: none, a dict with a string key, a dict with an integer key
StrKeyed == DictV([src |-> StrV("cam")])
IntKeyed == DictIV(<<>>, <<StrV("cam")>>)
Metadatas == {NoneV, StrKeyed, IntKeyed}

SaveSteps ==
    \E t \in Threads : SaveOpen(t) \/ SaveWrite(t) \/ SaveWriteFail(t) \/ SaveRename(t)

(***************************************************************************)
(* SpecAdd: threads calling add_message on one manager that starts with no *)
(* history file.                                                           *)
(***************************************************************************)
NextAdd ==
    \/ \E as \in BOOLEAN, max \in Sizes : Construct("A", "bot", as, max)
    \/ \E t \in Threads, content \in Contents : AddCall(t, "A", "user", content, NoneV)
    \/ \E t \in Threads : AddAcquire(t)
    \/ \E t \in Threads : AddAppend(t)
    \/ SaveSteps
    \/ \E t \in Threads : Unlock(t)

SpecAdd == Init /\ [][NextAdd]_vars

(***************************************************************************)
(* SpecOps: two threads calling the four mutating methods of one manager.  *)
(***************************************************************************)
ClearSteps == \E t \in Threads : ClearAcquire(t) \/ ClearBackup(t) \/ ClearEmpty(t)
ImportSteps == \E t \in Threads : ImportRead(t) \/ ImportAcquire(t) \/ ImportApply(t)

NextOps ==
    \/ \E as \in BOOLEAN : Construct("A", "bot", as, 1)
    \/ \E t \in Threads, content \in Contents : AddCall(t, "A", "user", content, NoneV)
    \/ \E t \in Threads : AddAcquire(t)
    \/ \E t \in Threads : AddAppend(t)
    \/ \E t \in Threads, b \in BOOLEAN : ClearCall(t, "A", b)
    \/ ClearSteps
    \/ \E t \in Threads : ExportCall(t, "A", ExportFile)
    \/ \E t \in Threads : ExportAcquire(t)
    \/ \E t \in Threads, b \in BOOLEAN : ImportCall(t, "A", ExportFile, b)
    \/ ImportSteps
    \/ SaveSteps
    \/ \E t \in Threads : Unlock(t)

SpecOps == Init /\ [][NextOps]_vars

(***************************************************************************)
(* SpecClear: one thread calling add_message and clear_history on one      *)
(* manager while the clock runs.                                           *)
(***************************************************************************)
NextClear ==
    \/ \E as \in BOOLEAN : Construct("A", "bot", as, MaxSize)
    \/ Tick
    \/ \E content \in Contents : AddCall("t1", "A", "user", content, NoneV)
    \/ \E t \in Threads : AddAcquire(t)
    \/ \E t \in Threads : AddAppend(t)
    \/ \E b \in BOOLEAN : ClearCall("t1", "A", b)
    \/ ClearSteps
    \/ SaveSteps
    \/ \E t \in Threads : Unlock(t)

SpecClear == Init /\ [][NextClear]_vars

(***************************************************************************)
(* SpecPersist: manager A adds messages and saves them, and a second       *)
(* manager B is constructed on the same history file.                      *)
(***************************************************************************)
NextPersist ==
    \/ \E max \in Sizes : Construct("A", "bot", TRUE, max)
    \/ Construct("B", "bot", FALSE, 1)
    \/ \E content \in Contents : AddCall("t1", "A", "user", content, NoneV)
    \/ AddCall("t1", "A", "system", "a", IntKeyed)
    \/ \E t \in Threads : AddAcquire(t)
    \/ \E t \in Threads : AddAppend(t)
    \/ SaveSteps
    \/ \E t \in Threads : Unlock(t)

SpecPersist == Init /\ [][NextPersist]_vars

(***************************************************************************)
(* SpecCrash: manager A adds messages and saves them; the process may die  *)
(* at any point and start again.                                           *)
(***************************************************************************)
NextCrash ==
    \/ \E max \in Sizes : Construct("A", "bot", TRUE, max)
    \/ \E content \in Contents : AddCall("t1", "A", "user", content, NoneV)
    \/ \E t \in Threads : AddAcquire(t)
    \/ \E t \in Threads : AddAppend(t)
    \/ SaveSteps
    \/ \E t \in Threads : Unlock(t)
    \/ Crash
    \/ \E max \in Sizes : Restart("A", "bot", TRUE, max)

SpecCrash == Init /\ [][NextCrash]_vars

(***************************************************************************)
(* SpecLoad: a manager is constructed on a history directory whose history *)
(* file holds anything at all.                                             *)
(***************************************************************************)
MaxFileLen == 3     \* entries in the "history" array of a file found on disk

\* entries of a "history" array: two messages, a record without role, a
\* record without content, a number
FileEntries == {JObj([role |-> JStr("user"), content |-> JStr("a")]),
                JObj([role |-> JStr("system"), content |-> JStr("b"),
                      timestamp |-> JTime(0), metadata |-> JObj(<<>>)]),
                JObj([content |-> JStr("a")]),
                JObj([role |-> JStr("user")]),
                JNum(7)}
FileHistories == UNION {[1..n -> FileEntries] : n \in 0..MaxFileLen}

DiskContents ==
    {Absent, Unreadable, Garbage, Partial,
     Text(JArr(<<>>)), Text(JNum(1)), Text(JNull), Text(JObj(<<>>)),
     Text(JObj([history |-> JNull])), Text(JObj([history |-> JNum(5)])),
     Text(JObj([history |-> JStr("x")]))}
        \cup {Text(JObj([agent_name |-> JStr("bot"), history |-> JArr(h)])) :
                h \in FileHistories}

InitLoad == \E c \in DiskContents : InitWith([NoFiles EXCEPT ![HistoryFile("bot")] = c])

NextLoad ==
    \/ \E as \in BOOLEAN, max \in Sizes : Construct("A", "bot", as, max)

SpecLoad == InitLoad /\ [][NextLoad]_vars

(***************************************************************************)
(* SpecExchange: manager A exports its history and manager B imports the   *)
(* export file; an earlier session may have left a history file.           *)
(***************************************************************************)
OldSession ==
    Text(ToJson(SaveData("bot", 0, ListV(<<Message("user", "b", 0, NoneV)>>))))

InitExchange ==
    \E c \in {Absent, OldSession} : InitWith([NoFiles EXCEPT ![HistoryFile("bot")] = c])

NextExchange ==
    \/ Construct("A", "bot", FALSE, MaxSize)
    \/ \E max \in Sizes : Construct("B", "bot", FALSE, max)
    \/ \E metadata \in Metadatas : AddCall("t1", "A", "user", "a", metadata)
    \/ \E t \in Threads : AddAcquire(t)
    \/ \E t \in Threads : AddAppend(t)
    \/ ExportCall("t1", "A", ExportFile)
    \/ \E t \in Threads : ExportAcquire(t)
    \/ \E b \in BOOLEAN : ImportCall("t1", "B", ExportFile, b)
    \/ ImportSteps
    \/ SaveSteps
    \/ \E t \in Threads : Unlock(t)

SpecExchange == InitExchange /\ [][NextExchange]_vars

(***************************************************************************)
(* SpecRead: a manager constructed on the history file of an earlier       *)
(* session; one thread adds messages while the other reads the history.    *)
(***************************************************************************)
MaxLimit == 2       \* largest limit passed to get_history / get_formatted_history

Limits == {NoneV} \cup {IntV(n) : n \in 0..MaxLimit}
RoleFilters == {NoneV, StrV("user"), StrV("system")}

StoredMessages == {Message("user", "a", 0, NoneV),
                   Message("system", "b", 0, StrKeyed),
                   Message("assistant", "b", 0, NoneV)}
StoredHistories == UNION {[1..n -> StoredMessages] : n \in 0..MaxFileLen}

InitRead ==
    \E l \in StoredHistories :
        InitWith([NoFiles EXCEPT ![HistoryFile("bot")] =
                     Text(ToJson(SaveData("bot", 0, ListV(l))))])

NextRead ==
    \/ Construct("A", "bot", FALSE, MaxSize)
    \/ \E role \in Roles : AddCall("t1", "A", role, "a", NoneV)
    \/ \E t \in Threads : AddAcquire(t)
    \/ \E t \in Threads : AddAppend(t)
    \/ \E t \in Threads : Unlock(t)
    \/ \E limit \in Limits, role_filter \in RoleFilters :
           GetHistoryCall("t2", "A", limit, role_filter)
    \/ \E limit \in Limits, include_system \in BOOLEAN :
           GetFormattedCall("t2", "A", limit, include_system)
    \/ \E t \in Threads : GetAcquire(t)
    \/ \E t \in Threads : GetRead(t)
    \/ CallerChangesResult("t2")

SpecRead == InitRead /\ [][NextRead]_vars

(***************************************************************************)
(* SpecImport: one thread adds to, clears, reads and imports into one      *)
(* manager; the import file holds anything at all.                         *)
(***************************************************************************)
\* entries of the "history" array of an import file: a message and a record
\* without role
ImportEntries == {JObj([role |-> JStr("user"), content |-> JStr("b"),
                        timestamp |-> JTime(0), metadata |-> JObj(<<>>)]),
                  JObj([content |-> JStr("b")])}
ImportHistories == UNION {[1..n -> ImportEntries] : n \in 0..MaxFileLen}

ImportContents ==
    {Absent, Unreadable, Garbage, Partial,
     Text(JArr(<<>>)), Text(JObj(<<>>)),
     Text(JObj([history |-> JNull])), Text(JObj([history |-> JStr("x")]))}
        \cup {Text(JObj([agent_name |-> JStr("bot"), history |-> JArr(h)])) :
                h \in ImportHistories}

InitImport == \E c \in ImportContents : InitWith([NoFiles EXCEPT ![ExportFile] = c])

NextImport ==
    \/ \E as \in BOOLEAN, max \in Sizes : Construct("A", "bot", as, max)
    \/ AddCall("t1", "A", "user", "a", NoneV)
    \/ \E t \in Threads : AddAcquire(t)
    \/ \E t \in Threads : AddAppend(t)
    \/ ClearCall("t1", "A", FALSE)
    \/ ClearSteps
    \/ \E b \in BOOLEAN : ImportCall("t1", "A", ExportFile, b)
    \/ ImportSteps
    \/ \E role_filter \in {NoneV, StrV("user")} : GetHistoryCall("t1", "A", NoneV, role_filter)
    \/ GetFormattedCall("t1", "A", NoneV, TRUE)
    \/ \E t \in Threads : GetAcquire(t)
    \/ \E t \in Threads : GetRead(t)
    \/ SaveSteps
    \/ \E t \in Threads : Unlock(t)

SpecImport == InitImport /\ [][NextImport]_vars

(***************************************************************************)
(* SpecLive: two threads calling the six public methods of one manager,    *)
(* under a scheduler that lets every thread with something to do run.      *)
(* The import file holds a "history" that is not a list until             *)
(* export_history writes to it.                                            *)
(***************************************************************************)
\* a step of thread t inside a call
ThreadStep(t) ==
    \/ AddAcquire(t) \/ AddAppend(t)
    \/ ClearAcquire(t) \/ ClearBackup(t) \/ ClearEmpty(t)
    \/ ExportAcquire(t)
    \/ ImportRead(t) \/ ImportAcquire(t) \/ ImportApply(t)
    \/ GetAcquire(t) \/ GetRead(t)
    \/ SaveOpen(t) \/ SaveWrite(t) \/ SaveWriteFail(t) \/ SaveRename(t)
    \/ Unlock(t)

InitLive == InitWith([NoFiles EXCEPT ![ExportFile] = Text(JObj([history |-> JNull]))])

NextLive ==
    \/ Construct("A", "bot", TRUE, 1)
    \/ \E t \in Threads : AddCall(t, "A", "user", "a", NoneV)
    \/ \E t \in Threads : ClearCall(t, "A", TRUE)
    \/ \E t \in Threads : ExportCall(t, "A", ExportFile)
    \/ \E t \in Threads : ImportCall(t, "A", ExportFile, FALSE)
    \/ \E t \in Threads : GetHistoryCall(t, "A", NoneV, StrV("user"))
    \/ \E t \in Threads : GetFormattedCall(t, "A", NoneV, TRUE)
    \/ \E t \in Threads : ThreadStep(t)

\* every thread that can take a step of its call eventually takes one
Fairness == \A t \in Threads : WF_vars(ThreadStep(t))

SpecLive == InitLive /\ [][NextLive]_vars /\ Fairness

(***************************************************************************)
(* GPSFabricConnector (src/src/actions/gps/connector/fabric.py).           *)
(* send_coordinates reads three dynamic variables, POSTs them as a         *)
(* JSON-RPC request through _send_request, which tenacity retries, and     *)
(* maps what comes back to a boolean.                                      *)
(***************************************************************************)
MaxRetries == 3     \* largest max_retries a connector is configured with

\* stop_after_attempt(3), line 101
StopAfterAttempt == 3

\* Exception classes and their base classes (requests.exceptions and builtins)
Bases(exc) ==
    CASE exc = "Timeout" -> {"Timeout", "RequestException", "OSError", "Exception"}
      [] exc = "ConnectionError" -> {"ConnectionError", "RequestException", "OSError", "Exception"}
      [] exc = "HTTPError" -> {"HTTPError", "RequestException", "OSError", "Exception"}
      [] exc = "RequestException" -> {"RequestException", "OSError", "Exception"}
      [] exc = "JSONDecodeError" -> {"JSONDecodeError", "ValueError", "RequestException",
                                     "OSError", "Exception"}
      [] exc = "TypeError" -> {"TypeError", "Exception"}
      [] OTHER -> {exc, "Exception"}

\* The except clauses of send_coordinates' outer try, lines 173-187
\* (mutant) the catch-all clause of line 185 is missing
ExceptClausesRequestsOnly == <<"Timeout", "ConnectionError", "HTTPError", "RequestException">>
ExceptClauses == <<"Timeout", "ConnectionError", "HTTPError", "RequestException", "Exception">>

\* The first clause that handles exc, 0 when none does
Handler(exc) ==
    LET hs == {i \in DOMAIN ExceptClauses : ExceptClauses[i] \in Bases(exc)}
    IN  IF hs = {} THEN 0 ELSE CHOOSE i \in hs : \A j \in hs : i <= j

\* What send_coordinates does with an exception raised inside the outer try:
\* every clause logs and returns False; an exception no clause handles leaves
\* the method
Sent(result, exc) == [result |-> result, exc |-> exc]
Handled(exc) == IF Handler(exc) = 0 THEN Sent(NoneV, exc) ELSE Sent(BoolV(FALSE), "none")

\* _get_coordinates, lines 81-98
\* (mutant) only the latitude is checked
MissingLatitude(io) == io.latitude = NoneV
Missing(io) == io.latitude = NoneV \/ io.longitude = NoneV \/ io.yaw_deg = NoneV
GetCoordinates(io) ==
    IF Missing(io) THEN NoneV
    ELSE DictV([latitude |-> io.latitude, longitude |-> io.longitude, yaw |-> io.yaw_deg])

\* The JSON-RPC request of lines 121-126
RequestJson(coords) ==
    ToJson(DictV([method |-> StrV("omp2p_shareStatus"), params |-> ListV(<<coords>>),
                  id |-> IntV(1), jsonrpc |-> StrV("2.0")]))

\* A response: its HTTP status and its body, which is a JSON text or not
Response(status, body) == [t |-> "response", status |-> status, body |-> body]

\* response.raise_for_status() raises HTTPError for 4xx and 5xx
IsErrorStatus(status) == status >= 400 /\ status < 600

\* `"result" in v` and `"error" in v` for a decoded JSON value v: a key of a
\* dict, an item of a list, a substring of a string (the strings of the model
\* contain a member name only when they are that name); TypeError otherwise
HasMember(v, name) ==
    CASE v.t = "dict" -> name \in DOMAIN v.d
      [] v.t = "list" -> \E i \in DOMAIN v.l : v.l[i] = StrV(name)
      [] v.t = "str" -> v = StrV(name)
      [] OTHER -> FALSE
MemberTestRaises(v) == v.t \notin {"dict", "list", "str"}

\* lines 163-171 on the decoded body
\* (mutant) a result member counts as success whatever its value
CheckResultPresent(v) ==
    IF MemberTestRaises(v) THEN Handled("TypeError")
    ELSE IF HasMember(v, "result")
         THEN IF ~IsDict(v) THEN Handled("TypeError") ELSE Sent(BoolV(TRUE), "none")
    ELSE IF HasMember(v, "error")
         THEN IF ~IsDict(v) THEN Handled("TypeError") ELSE Sent(BoolV(FALSE), "none")
    ELSE Sent(BoolV(FALSE), "none")
CheckResult(v) ==
    IF MemberTestRaises(v) THEN Handled("TypeError")
    ELSE IF HasMember(v, "result")
         THEN \* result["result"] indexes a list or a string by a string
              IF ~IsDict(v) THEN Handled("TypeError")
              ELSE IF Truthy(v.d.result) THEN Sent(BoolV(TRUE), "none")
              ELSE IF HasMember(v, "error") THEN Sent(BoolV(FALSE), "none")
              ELSE Sent(BoolV(FALSE), "none")
    ELSE IF HasMember(v, "error")
         THEN \* line 167 formats result['error']
              IF ~IsDict(v) THEN Handled("TypeError") ELSE Sent(BoolV(FALSE), "none")
    ELSE Sent(BoolV(FALSE), "none")

\* lines 152-171 on the response _send_request returned
Outcome(r) ==
    IF IsErrorStatus(r.status) THEN Handled("HTTPError")
    ELSE IF r.body.f # "json" THEN Sent(BoolV(FALSE), "none")   \* lines 157-160
    ELSE CheckResult(FromJson(r.body.doc))

\* tenacity's stop condition after a failed attempt
\* (mutant) one attempt more is allowed
StopsLate(attempt) == attempt > StopAfterAttempt
Stops(attempt) == attempt >= StopAfterAttempt

\* send_coordinates returns: its locals are gone, the caller has the result
FabricReturn(sent, sentPosts) ==
    /\ fabric_pc' = IF connecting.active THEN "connected" ELSE "idle"   \* line 68
    /\ coordinates' = NoneV
    /\ attempt_number' = 0
    /\ posts' = <<>>
    /\ response' = NoneV
    /\ ev' = [op |-> "return", of |-> "send_coordinates", result |-> sent.result,
              exc |-> sent.exc, io |-> io_provider, max_retries |-> max_retries,
              posts |-> sentPosts, response |-> response]

\* GPSFabricConnector(config), lines 41-54
NewConnector(retries) ==
    /\ fabric_pc \in {"none", "idle"}
    /\ max_retries' = retries
    /\ fabric_pc' = "idle"
    /\ ev' = NoEv
    /\ UNCHANGED <<io_provider, coordinates, attempt_number, posts, response>>
    /\ UNCHANGED connecting
    /\ UNCHANGED <<historyVars, simVars>>

\* An input of the robot sets a dynamic variable of the IO provider
SetDynamicVariable(name, value) ==
    /\ fabric_pc = "idle"
    /\ io_provider' = [io_provider EXCEPT ![name] = value]
    /\ ev' = NoEv
    /\ UNCHANGED <<max_retries, fabric_pc, coordinates, attempt_number, posts, response>>
    /\ UNCHANGED connecting
    /\ UNCHANGED <<historyVars, simVars>>

\* send_coordinates is called, line 131
SendCall ==
    /\ fabric_pc = "idle"
    /\ fabric_pc' = "get_coordinates"
    /\ ev' = NoEv
    /\ UNCHANGED <<io_provider, max_retries, coordinates, attempt_number, posts, response>>
    /\ UNCHANGED connecting
    /\ UNCHANGED <<historyVars, simVars>>

\* lines 143-145
SendGetCoordinates ==
    /\ fabric_pc = "get_coordinates"
    /\ IF GetCoordinates(io_provider) = NoneV
       THEN FabricReturn(Sent(BoolV(FALSE), "none"), posts)
       ELSE /\ coordinates' = GetCoordinates(io_provider)
            /\ fabric_pc' = "post"
            /\ attempt_number' = 1
            /\ ev' = NoEv
            /\ UNCHANGED <<posts, response>>
    /\ UNCHANGED <<io_provider, max_retries>>
    /\ connecting' = IF connecting.active THEN [connecting EXCEPT !.reads = @ + 1]
                      ELSE connecting
    /\ UNCHANGED <<historyVars, simVars>>

\* One attempt of _send_request (lines 119-129): requests.post raises exc
PostRaises(exc) ==
    /\ fabric_pc = "post"
    /\ LET made == Append(posts, [json |-> RequestJson(coordinates), outcome |-> exc])
       IN  IF Stops(attempt_number)
           THEN FabricReturn(Handled(exc), made)   \* reraise=True, then lines 173-187
           ELSE /\ posts' = made
                /\ fabric_pc' = "wait"
                /\ ev' = [op |-> "post", exc |-> exc]
                /\ UNCHANGED <<coordinates, attempt_number, response>>
    /\ UNCHANGED <<io_provider, max_retries>>
    /\ UNCHANGED connecting
    /\ UNCHANGED <<historyVars, simVars>>

\* wait_exponential: the retry loop sleeps, then starts the next attempt
RetryWait ==
    /\ fabric_pc = "wait"
    /\ fabric_pc' = "post"
    /\ attempt_number' = attempt_number + 1
    /\ ev' = NoEv
    /\ UNCHANGED <<io_provider, max_retries, coordinates, posts, response>>
    /\ UNCHANGED connecting
    /\ UNCHANGED <<historyVars, simVars>>

\* lines 119-129: _send_request hands back whatever requests.post returned;
\* the status is looked at by raise_for_status at line 152, outside the
\* function tenacity retries, so no response makes the attempt raise
\* (mutant) an HTTP error status raises inside the retried function
AttemptRaisesOnErrorStatus(r) == r.status >= 400 /\ r.status < 600
AttemptRaises(r) == FALSE

\* One attempt of _send_request: requests.post returns the response r
PostReturns(r) ==
    /\ fabric_pc = "post"
    /\ LET made == Append(posts, [json |-> RequestJson(coordinates), outcome |-> "response"])
       IN  IF AttemptRaises(r)
           THEN IF Stops(attempt_number)
                THEN FabricReturn(Handled("HTTPError"), made)
                ELSE /\ posts' = made
                     /\ fabric_pc' = "wait"
                     /\ ev' = [op |-> "post", exc |-> "HTTPError"]
                     /\ UNCHANGED <<coordinates, attempt_number, response>>
           ELSE /\ posts' = made
                /\ response' = r
                /\ fabric_pc' = "response"
                /\ ev' = [op |-> "post", exc |-> "none"]
                /\ UNCHANGED <<coordinates, attempt_number>>
    /\ UNCHANGED <<io_provider, max_retries>>
    /\ UNCHANGED connecting
    /\ UNCHANGED <<historyVars, simVars>>

\* lines 152-171: the status, the body and the JSON-RPC members decide
SendCheckResponse ==
    /\ fabric_pc = "response"
    /\ FabricReturn(Outcome(response), posts)
    /\ UNCHANGED <<io_provider, max_retries>>
    /\ UNCHANGED connecting
    /\ UNCHANGED <<historyVars, simVars>>

\* line 67: connect acts on GPSAction.SHARE_LOCATION only
\* (mutant) every action shares the location
SharesAlways(action) == TRUE
Shares(action) == action = "SHARE_LOCATION"

\* connect(output_interface), lines 65-68: another action returns at once
ConnectCall(action) ==
    /\ fabric_pc = "idle"
    /\ IF Shares(action)
       THEN /\ connecting' = [active |-> TRUE, action |-> action, sends |-> 1, reads |-> 0]
            /\ fabric_pc' = "get_coordinates"
            /\ ev' = NoEv
       ELSE /\ ev' = [op |-> "return", of |-> "connect", action |-> action, exc |-> "none",
                      sends |-> 0, reads |-> 0, posts |-> <<>>, success |-> NoneV]
            /\ UNCHANGED <<fabric_pc, connecting>>
    /\ UNCHANGED <<io_provider, max_retries, coordinates, attempt_number, posts, response>>
    /\ UNCHANGED <<historyVars, simVars>>

\* lines 68-70: send_coordinates has returned (ev holds what it returned);
\* a failure is logged and connect returns None
ConnectReturn ==
    /\ fabric_pc = "connected"
    /\ fabric_pc' = "idle"
    /\ connecting' = NoConnect
    /\ ev' = [op |-> "return", of |-> "connect", action |-> connecting.action,
              exc |-> ev.exc, sends |-> connecting.sends, reads |-> connecting.reads,
              posts |-> ev.posts, success |-> ev.result]
    /\ UNCHANGED <<io_provider, max_retries, coordinates, attempt_number, posts, response>>
    /\ UNCHANGED <<historyVars, simVars>>

(***************************************************************************)
(* SpecFabric: a connector with any max_retries, any dynamic variables     *)
(* and an endpoint that may fail or answer anything on each attempt.       *)
(***************************************************************************)
CoordinateValues == {NoneV, IntV(0), IntV(1)}
DynamicVariables == {"latitude", "longitude", "yaw_deg"}
PostErrors == {"Timeout", "ConnectionError", "RequestException"}
Statuses == {200, 404, 500}
Bodies == {Garbage,
           Text(JObj([result |-> JNum(1)])),
           Text(JObj([result |-> JNum(0)])),
           Text(JObj([result |-> JBool(TRUE)])),
           Text(JObj([result |-> JBool(FALSE)])),
           Text(JObj([result |-> JStr("")])),
           Text(JObj([result |-> JArr(<<>>)])),
           Text(JObj([result |-> JObj(<<>>)])),
           Text(JObj([result |-> JNull, error |-> JStr("e")])),
           Text(JObj([result |-> JNum(1), error |-> JStr("e")])),
           Text(JObj([error |-> JStr("e")])),
           Text(JObj([id |-> JNum(1)])),
           Text(JArr(<<JStr("result")>>)),
           Text(JArr(<<JStr("error")>>)),
           Text(JArr(<<>>)),
           Text(JStr("result")),
           Text(JNum(1)),
           Text(JNull)}
Responses ==
    {Response(200, b) : b \in Bodies}
    \cup {Response(st, b) : st \in Statuses, b \in {Garbage, Text(JObj([result |-> JNum(1)]))}}

InitFabric == HistoryInit(NoFiles) /\ NoFabric /\ NoSimulators

NextFabric ==
    \/ \E retries \in 1..MaxRetries : NewConnector(retries)
    \/ \E name \in DynamicVariables, value \in CoordinateValues :
           SetDynamicVariable(name, value)
    \/ SendCall
    \/ SendGetCoordinates
    \/ \E exc \in PostErrors : PostRaises(exc)
    \/ RetryWait
    \/ \E r \in Responses : PostReturns(r)
    \/ SendCheckResponse

SpecFabric == InitFabric /\ [][NextFabric]_vars

(***************************************************************************)
(* SpecConnect: the runtime hands actions to connect; an action is         *)
(* GPSAction.SHARE_LOCATION or some other value.                           *)
(***************************************************************************)
GPSActions == {"SHARE_LOCATION", "other", "none"}

NextConnect ==
    \/ NewConnector(StopAfterAttempt)
    \/ \E name \in DynamicVariables, value \in CoordinateValues :
           SetDynamicVariable(name, value)
    \/ \E action \in GPSActions : ConnectCall(action)
    \/ SendGetCoordinates
    \/ \E exc \in PostErrors : PostRaises(exc)
    \/ RetryWait
    \/ \E r \in Responses : PostReturns(r)
    \/ SendCheckResponse
    \/ ConnectReturn

SpecConnect == InitFabric /\ [][NextConnect]_vars

(***************************************************************************)
(* The simulator loader (src/src/simulators/__init__.py).                  *)
(*                                                                         *)
(* A file of the plugins directory is its name, its extension, whether it  *)
(* can be read, and the class declarations in its text: for each, the      *)
(* column the keyword class starts at, the class name and the names        *)
(* between the parentheses.  A module is what importing it yields: an      *)
(* exception, or its attributes (by name) and its SimulatorConfig          *)
(* subclasses in the order of the module's __dict__.                       *)
(***************************************************************************)
MaxFiles == 2       \* files in the plugins directory

Decl(col, name, bases) == [col |-> col, name |-> name, bases |-> bases]
File(name, ext, readable, decls) ==
    [name |-> name, ext |-> ext, readable |-> readable, decls |-> decls]

IsStr(v) == v.t = "str" /\ "s" \in DOMAIN v

\* "Simulator" occurs in the text of the base name b
MentionsSimulator(b) == b \in {"Simulator", "MockSimulator"}

\* The pattern of line 39 on one declaration: `^class` is the start of a
\* line, then the escaped class name, then a parenthesised list without ")"
\* in which the text Simulator occurs
PatternMatches(decl, class_name) ==
    /\ IsStr(class_name)
    /\ decl.col = 0
    /\ decl.name = class_name.s
    /\ \E i \in DOMAIN decl.bases : MentionsSimulator(decl.bases[i])

\* lines 35-46 on one file: a file that cannot be read, or a class name that
\* re.escape rejects, raises inside the try and the file is skipped
FileMatches(f, class_name) ==
    f.readable /\ \E i \in DOMAIN f.decls : PatternMatches(f.decls[i], class_name)

\* line 30
PluginFiles(dir) == SelectSeq(dir.files, LAMBDA f : f.ext = "py")

\* find_module_with_class, lines 11-48
\* (mutant) the last matching file wins
FindLastModuleWithClass(dir, class_name) ==
    IF ~dir.exists THEN NoneV
    ELSE LET fs == PluginFiles(dir)
             hits == {i \in DOMAIN fs : FileMatches(fs[i], class_name)}
         IN  IF hits = {} THEN NoneV
             ELSE StrV(fs[CHOOSE i \in hits : \A j \in hits : i >= j].name)
FindModuleWithClass(dir, class_name) ==
    IF ~dir.exists THEN NoneV
    ELSE LET fs == PluginFiles(dir)
             hits == {i \in DOMAIN fs : FileMatches(fs[i], class_name)}
         IN  IF hits = {} THEN NoneV
             ELSE StrV(fs[CHOOSE i \in hits : \A j \in hits : i <= j].name)

\* Modules
ImportFails(exc) == [import |-> exc]
\* init: what calling a class of the module raises ("ok": nothing)
ModuleRaising(attrs, config_classes, init) ==
    [import |-> "ok", attrs |-> attrs, config_classes |-> config_classes, init |-> init]
Module(attrs, config_classes) == ModuleRaising(attrs, config_classes, "ok")
PluginModule(module_name) == [package |-> "simulators.plugins", module |-> module_name.s]

\* getattr(module, class_name): what kind of object the attribute is
\*   "missing" (AttributeError), "object" (not a class), "class" (a class
\*   that is no subclass of Simulator), "Simulator" (the base class itself),
\*   "subclass" (a proper subclass of Simulator)
GetAttr(module, class_name) ==
    IF IsStr(class_name) /\ class_name.s \in DOMAIN module.attrs
    THEN module.attrs[class_name.s] ELSE "missing"

\* lines 76-80 and 120-124
\* (mutant) the base class itself is accepted
ValidSimulatorOrBase(kind) == kind \in {"subclass", "Simulator"}
ValidSimulator(kind) == kind = "subclass"

\* The messages of the ValueErrors
Msg(text, arg) == [text |-> text, arg |-> arg]
NotFoundAnywhere(class_name) ==
    Msg("Class '{}' not found in any simulator plugin module", class_name)
NotValidSimulatorSubclass(class_name) == Msg("'{}' is not a valid Simulator subclass", class_name)
NotValidSubclass(class_name) == Msg("'{}' is not a valid simulator subclass", class_name)
CouldNotImport(module_name) == Msg("Could not import simulator module '{}'", module_name)
NotFoundInModule(class_name) == Msg("Class '{}' not found in simulator module '{}'", class_name)
NoMsg == Msg("", NoneV)

\* What a call does: the value it returns or the exception it raises, and
\* the calls it made on the way
Ran(value, exc, msg, finds, imports, made) ==
    [value |-> value, exc |-> exc, msg |-> msg, finds |-> finds, imports |-> imports,
     made |-> made]

\* lines 127-134: the last SimulatorConfig subclass of the module, if any
ConfigClass(module) ==
    IF module.config_classes = <<>> THEN "SimulatorConfig"
    ELSE module.config_classes[Len(module.config_classes)]

\* lines 136-144: the config object
\* (mutant) the "config" entry is used whatever it is
ConfigUnchecked(module, simulator_config) ==
    [class |-> ConfigClass(module),
     fields |-> IF "config" \in DOMAIN simulator_config.d
                THEN simulator_config.d.config ELSE EmptyDict]
Config(module, simulator_config) ==
    LET config_dict == IF "config" \in DOMAIN simulator_config.d
                       THEN simulator_config.d.config ELSE EmptyDict
    IN  [class |-> ConfigClass(module),
         fields |-> IF IsDict(config_dict) THEN config_dict ELSE EmptyDict]

Instance(class_name, module_name, config) ==
    [t |-> "instance", class |-> class_name, module |-> module_name, config |-> config]
ClassObject(class_name, module_name) ==
    [t |-> "class", class |-> class_name, module |-> module_name]

\* load_simulator, lines 94-154
LoadSimulator(simulator_config, dir, modules) ==
    IF "type" \notin DOMAIN simulator_config.d
    THEN Ran(NoneV, "KeyError", Msg("{}", StrV("type")), <<>>, <<>>, <<>>)   \* line 108
    ELSE
    LET class_name == simulator_config.d.type
        module_name == FindModuleWithClass(dir, class_name)
        finds == <<class_name>>
    IN  IF module_name = NoneV
        THEN Ran(NoneV, "ValueError", NotFoundAnywhere(class_name), finds, <<>>, <<>>)
        ELSE
        LET module == modules[module_name.s]
            imports == <<PluginModule(module_name)>>
        IN  IF module.import = "ImportError"
            THEN Ran(NoneV, "ValueError", CouldNotImport(module_name), finds, imports, <<>>)
            ELSE IF module.import # "ok"
            THEN Ran(NoneV, module.import, NoMsg, finds, imports, <<>>)
            ELSE IF GetAttr(module, class_name) = "missing"
            THEN Ran(NoneV, "ValueError", NotFoundInModule(class_name), finds, imports, <<>>)
            ELSE IF ~ValidSimulator(GetAttr(module, class_name))
            THEN Ran(NoneV, "ValueError", NotValidSubclass(class_name), finds, imports, <<>>)
            ELSE IF module.init = "ImportError"                              \* line 149
            THEN Ran(NoneV, "ValueError", CouldNotImport(module_name), finds, imports, <<>>)
            ELSE IF module.init = "AttributeError"                           \* line 151
            THEN Ran(NoneV, "ValueError", NotFoundInModule(class_name), finds, imports, <<>>)
            ELSE IF module.init # "ok"
            THEN Ran(NoneV, module.init, NoMsg, finds, imports, <<>>)
            ELSE LET made == Instance(class_name, module_name,
                                      Config(module, simulator_config))
                 IN  Ran(made, "none", NoMsg, finds, imports, <<made>>)

\* get_simulator_class, lines 51-91
GetSimulatorClass(class_name, dir, modules) ==
    LET module_name == FindModuleWithClass(dir, class_name)
        finds == <<class_name>>
    IN  IF module_name = NoneV
        THEN Ran(NoneV, "ValueError", NotFoundAnywhere(class_name), finds, <<>>, <<>>)
        ELSE
        LET module == modules[module_name.s]
            imports == <<PluginModule(module_name)>>
        IN  IF module.import = "ImportError"
            THEN Ran(NoneV, "ValueError", CouldNotImport(module_name), finds, imports, <<>>)
            ELSE IF module.import # "ok"
            THEN Ran(NoneV, module.import, NoMsg, finds, imports, <<>>)
            ELSE IF GetAttr(module, class_name) = "missing"
            THEN Ran(NoneV, "ValueError", NotFoundInModule(class_name), finds, imports, <<>>)
            ELSE IF ~ValidSimulator(GetAttr(module, class_name))
            THEN Ran(NoneV, "ValueError", NotValidSimulatorSubclass(class_name), finds,
                     imports, <<>>)
            ELSE Ran(ClassObject(class_name, module_name), "none", NoMsg, finds, imports, <<>>)

\* A call of one of the three functions, from its first line to its return
SimReturn(of, arg, ran) ==
    /\ find_calls' = ran.finds
    /\ import_calls' = ran.imports
    /\ instances' = ran.made
    /\ ev' = [op |-> "return", of |-> of, arg |-> arg, result |-> ran.value,
              exc |-> ran.exc, msg |-> ran.msg]
    /\ UNCHANGED <<plugins_dir, plugin_modules>>
    /\ UNCHANGED <<historyVars, fabricVars>>

FindModuleCall(class_name) ==
    SimReturn("find_module_with_class", class_name,
              Ran(FindModuleWithClass(plugins_dir, class_name), "none", NoMsg,
                  <<class_name>>, <<>>, <<>>))

GetSimulatorClassCall(class_name) ==
    SimReturn("get_simulator_class", class_name,
              GetSimulatorClass(class_name, plugins_dir, plugin_modules))

LoadSimulatorCall(simulator_config) ==
    SimReturn("load_simulator", simulator_config,
              LoadSimulator(simulator_config, plugins_dir, plugin_modules))

(***************************************************************************)
(* SpecFind: find_module_with_class on any plugins directory.              *)
(***************************************************************************)
FileNames == {"a", "b"}
ClassNames == {"Sim", "Other", "Ghost"}

DeclLists == {<<>>,
              <<Decl(0, "Sim", <<"Simulator">>)>>,
              <<Decl(0, "Sim", <<"MockSimulator">>)>>,
              <<Decl(0, "Sim", <<"object">>)>>,
              <<Decl(4, "Sim", <<"Simulator">>)>>,
              <<Decl(0, "Other", <<"Simulator">>), Decl(0, "Sim", <<"object", "Simulator">>)>>}

Files == {File(n, e, TRUE, d) : n \in FileNames, e \in {"py", "txt"}, d \in DeclLists}
         \cup {File(n, e, FALSE, <<>>) : n \in FileNames, e \in {"py", "txt"}}

\* Directory listings: no two entries have the same file name
Listings(fileSet) ==
    {l \in UNION {[1..n -> fileSet] : n \in 0..MaxFiles} :
        \A i, j \in DOMAIN l : i # j => <<l[i].name, l[i].ext>> # <<l[j].name, l[j].ext>>}

NoDir == [exists |-> FALSE, files |-> <<>>]
Dir(l) == [exists |-> TRUE, files |-> l]

NoModules == [n \in FileNames |-> ImportFails("ImportError")]

InitSim(dirs, modules) ==
    /\ HistoryInit(NoFiles)
    /\ NoFabric
    /\ plugins_dir \in dirs
    /\ plugin_modules \in modules
    /\ find_calls = <<>>
    /\ import_calls = <<>>
    /\ instances = <<>>

InitFind == InitSim({NoDir} \cup {Dir(l) : l \in Listings(Files)}, {NoModules})

NextFind == \E name \in ClassNames : FindModuleCall(StrV(name))

SpecFind == InitFind /\ [][NextFind]_vars

(***************************************************************************)
(* SpecSimulators: load_simulator and get_simulator_class on plugin files  *)
(* and modules of every kind.                                              *)
(***************************************************************************)
SimFiles == {File("a", "py", TRUE, <<Decl(0, "Sim", <<"Simulator">>)>>),
             File("a", "py", FALSE, <<>>),
             File("b", "py", TRUE, <<Decl(0, "Sim", <<"MockSimulator">>)>>),
             File("b", "py", TRUE, <<Decl(0, "Other", <<"Simulator">>)>>)}

AttrKinds == {"object", "class", "Simulator", "subclass"}
\* what the constructor of a plugin's class may raise
InitExceptions == {"ImportError", "AttributeError", "RuntimeError"}
ConfigClassLists == {<<>>, <<"SimConfig">>, <<"SimConfig", "OtherConfig">>}
Modules ==
    {ImportFails("ImportError"), ImportFails("SyntaxError")}
    \cup {Module(<<>>, <<>>)}
    \cup {Module([n \in {"Sim"} |-> k], cc) : k \in AttrKinds, cc \in ConfigClassLists}
    \cup {ModuleRaising([n \in {"Sim"} |-> "subclass"], <<>>, exc) : exc \in InitExceptions}

SimulatorConfigs ==
    {EmptyDict, DictV([config |-> DictV([x |-> IntV(1)])])}
    \cup {DictV([type |-> ty]) : ty \in {StrV("Sim"), StrV("Other"), NoneV}}
    \cup {DictV([type |-> StrV("Sim"), config |-> c]) :
             c \in {DictV([x |-> IntV(1)]), EmptyDict, NoneV, StrV("x")}}

InitSimulators ==
    InitSim({NoDir} \cup {Dir(l) : l \in Listings(SimFiles)}, [FileNames -> Modules])

NextSimulators ==
    \/ \E simulator_config \in SimulatorConfigs : LoadSimulatorCall(simulator_config)
    \/ \E name \in ClassNames : GetSimulatorClassCall(StrV(name))

SpecSimulators == InitSimulators /\ [][NextSimulators]_vars

(***************************************************************************)
(* Properties of add_message.                                              *)
(***************************************************************************)
LastN(q, n) == SubSeq(q, Len(q) - n + 1, Len(q))
AddedMsgs(m) == [i \in DOMAIN added[m] |-> added[m][i].msg]
RoleContent(msg) == <<msg.d.role.s, msg.d.content.s>>
SeqToBag(q) == [x \in {q[i] : i \in DOMAIN q} |-> Cardinality({i \in DOMAIN q : q[i] = x})]

\* C1: on a manager that started empty, after each add_message call the
\* history holds at most max_history_size messages, for every
\* max_history_size >= 0.
C1_BoundedAfterAdd ==
    \A m \in Mgrs :
        (alive[m] /\ Fresh(m) /\ ev.op = "return" /\ ev.of = "add_message" /\ ev.m = m)
            => (IsList(history[m]) /\ Len(history[m].l) <= max_history_size[m])

\* C2: on a manager that started empty with max_history_size = M >= 1, after
\* n add_message calls the history is the last min(n, M) messages added, in
\* the order they were added.
C2_KeepsMostRecent ==
    \A m \in Mgrs :
        (alive[m] /\ Fresh(m) /\ max_history_size[m] >= 1)
            => history[m] = ListV(LastN(AddedMsgs(m),
                                        Min(Len(added[m]), max_history_size[m])))

C2_Witness ==
    \E m \in Mgrs :
        /\ alive[m] /\ Fresh(m) /\ max_history_size[m] >= 1
        /\ ev.op = "return" /\ ev.of = "add_message"
        /\ Len(added[m]) > max_history_size[m]
        /\ Len(history[m].l) = max_history_size[m]
        /\ history[m].l[1] # added[m][1].msg

\* C3: when the threads have finished T <= max_history_size calls of
\* add_message on a manager that started empty, its history holds exactly T
\* messages, one for each call.
C3_NoLostAppend ==
    \A m \in Mgrs :
        (alive[m] /\ Fresh(m) /\ Quiescent(m)
                  /\ BagCardinality(issued[m]) <= max_history_size[m])
            => /\ IsList(history[m])
               /\ Len(history[m].l) = BagCardinality(issued[m])
               /\ SeqToBag([i \in DOMAIN history[m].l |-> RoleContent(history[m].l[i])])
                     = issued[m]

C3_Witness ==
    \E m \in Mgrs :
        /\ alive[m] /\ Fresh(m) /\ Quiescent(m)
        /\ BagCardinality(issued[m]) <= max_history_size[m]
        /\ Len(history[m].l) >= 2
        /\ \E i, k \in DOMAIN added[m] : added[m][i].by # added[m][k].by

(***************************************************************************)
(* Properties of the lock and of clear_history.                            *)
(***************************************************************************)
CriticalPcs == {"add_append", "clear_backup", "clear_empty", "import_apply",
                "save_open", "save_write", "save_rename", "unlock"}
InCritical(t) == pc[t] \in CriticalPcs

\* a step of a method (not a construction) that changes a history or a file
MutatingStep ==
    /\ ev'.op \notin {"init", "restart", "crash"}
    /\ (history' # history \/ files' # files)

\* C4: every change of the in-memory history and every file write made by
\* add_message, clear_history, import_history and export_history is made by
\* a thread that holds the manager's lock, and a thread inside such a
\* critical section is the holder of the lock, so no two sections overlap.
C4_SerializedByLock ==
    /\ [](\A t \in Threads : InCritical(t) => lock[call[t].m] = t)
    /\ [][MutatingStep => \E t \in Threads : pc'[t] # pc[t] /\ InCritical(t)
                                             /\ lock[call[t].m] = t]_vars

C4_Witness ==
    \E t, u \in Threads :
        /\ t # u
        /\ pc[t] = "save_write" /\ call[t].op = "export_history"
        /\ pc[u] \in {"add_lock", "clear_lock", "import_lock"}
        /\ call[u].m = call[t].m

\* C7: clear_history(save_backup=True) on a non-empty history empties the
\* in-memory history only after the backup file <agent>_backup_<ts>.json
\* holds the complete pre-clear history, and when clear_history returns the
\* in-memory history is empty.
C7_BackupBeforeClear ==
    /\ (ev.op = "cleared" /\ ev.save_backup /\ IsList(ev.pre) /\ ev.pre # EmptyList)
          => /\ ev.backup_file.kind = "backup"
             /\ ev.backup_file.agent = agent_name[ev.m]
             /\ ev.backup_file.ext = "json"
             /\ files[ev.backup_file].f = "json"
             /\ files[ev.backup_file].doc.o.history = ToJson(ev.pre)
             /\ files[ev.backup_file].doc.o.message_count = JNum(Len(ev.pre.l))
             /\ history[ev.m] = EmptyList
    /\ (ev.op = "return" /\ ev.of = "clear_history" /\ ev.exc = "none")
          => history[ev.m] = EmptyList

C7_Witness ==
    /\ ev.op = "cleared" /\ ev.save_backup /\ IsList(ev.pre) /\ Len(ev.pre.l) = 2
    /\ ev.backup_file.ts = 1
    /\ history[ev.m] = EmptyList

(***************************************************************************)
(* Properties of saving and loading.                                       *)
(***************************************************************************)
RoleAndContent(msg) == <<msg.d.role, msg.d.content>>
RolesAndContents(h) == [i \in DOMAIN h.l |-> RoleAndContent(h.l[i])]

\* C5: when manager a, with auto_save, has finished add_message calls whose
\* saves all succeeded, a manager b constructed on the same history file
\* holds the same messages (role and content) in the same order as a.
C5_PersistenceRoundTrip ==
    \A a, b \in Mgrs :
        (/\ a # b
         /\ ev.op = "init" /\ ev.exc = "none" /\ ev.m = b
         /\ alive[a] /\ agent_name[a] = agent_name[b] /\ auto_save[a]
         /\ Quiescent(a) /\ track[a].onlyAdds /\ ~track[a].saveFailed)
            => /\ IsList(history[b])
               /\ RolesAndContents(history[b]) = RolesAndContents(history[a])

C5_Witness ==
    /\ ev.op = "init" /\ ev.exc = "none" /\ ev.m = "B"
    /\ alive["A"] /\ auto_save["A"] /\ Quiescent("A")
    /\ track["A"].onlyAdds /\ ~track["A"].saveFailed
    /\ Len(added["A"]) > Len(history["A"].l)
    /\ Len(history["B"].l) = 2
    /\ history["B"] # history["A"]

\* What the target of a save in progress may hold: what it held before the
\* save, or the complete new document once that has been built
Snapshots(f) == {f.prev} \cup (IF f.doc # JNull THEN {Text(f.doc)} ELSE {})

\* C6: while _save_to_file runs, and after a crash at any point of it, the
\* target file holds the complete previous snapshot or the complete new one,
\* never a partial one, and a manager restarted after the crash loads one of
\* the two.
C6_AtomicSave ==
    /\ \A t \in Threads :
           sv[t].active => /\ files[sv[t].target] \in Snapshots(sv[t])
                           /\ files[sv[t].target].f \in {"absent", "json"}
    /\ ev.op = "restart" =>
           \A f \in ev.saving :
               f.target = HistoryFile(agent_name[ev.m])
                   => history[ev.m] \in {LoadHistory(c).history : c \in Snapshots(f)}

C6_Witness ==
    /\ ev.op = "restart"
    /\ \E f \in ev.saving :
           /\ f.target = HistoryFile(agent_name[ev.m])
           /\ f.prev.f = "json" /\ f.doc # JNull
           /\ files[TempFile(f.target)] = Partial
           /\ history[ev.m] = LoadHistory(f.prev).history
           /\ Len(history[ev.m].l) >= 1

\* a history file that cannot be read, is not JSON, or is JSON of an
\* unexpected shape
BadFile(c) ==
    \/ c.f \in {"unreadable", "partial", "garbage"}
    \/ /\ c.f = "json"
       /\ \/ c.doc.j # "object"
          \/ "history" \in DOMAIN c.doc.o /\ c.doc.o.history.j # "array"

\* C8: when the history file exists but cannot be read, is not valid JSON or
\* has an unexpected shape, the constructor completes without raising and
\* the in-memory history is an empty list.
C8_LoadDegradesToEmpty ==
    (ev.op = "init" /\ BadFile(ev.src))
        => (ev.exc = "none" /\ alive[ev.m] /\ history[ev.m] = EmptyList)

\* the entries of the "history" array of a file, and those the load keeps
EntriesOf(c) ==
    IF c.doc.j = "object" /\ "history" \in DOMAIN c.doc.o /\ c.doc.o.history.j = "array"
    THEN c.doc.o.history.a ELSE <<>>
IsMessageEntry(e) == e.j = "object" /\ "role" \in DOMAIN e.o /\ "content" \in DOMAIN e.o
KeptEntries(c) == SelectSeq(EntriesOf(c), IsMessageEntry)

\* C9: after the constructor has loaded a parseable history file, every entry
\* of the in-memory history is a record with a role and a content field: the
\* file entries that are not such records are dropped and the others are
\* kept in the order of the file.
C9_ValidatedOnLoad ==
    (ev.op = "init" /\ ev.exc = "none" /\ ev.src.f = "json")
        => /\ IsList(history[ev.m])
           /\ \A i \in DOMAIN history[ev.m].l : ValidMessage(history[ev.m].l[i])
           /\ history[ev.m].l = [i \in DOMAIN KeptEntries(ev.src) |->
                                    FromJson(KeptEntries(ev.src)[i])]

C9_Witness ==
    /\ ev.op = "init" /\ ev.exc = "none" /\ ev.src.f = "json"
    /\ Len(EntriesOf(ev.src)) = 3
    /\ ~IsMessageEntry(EntriesOf(ev.src)[2])
    /\ Len(history[ev.m].l) = 2
    /\ history[ev.m].l[1] # history[ev.m].l[2]

(***************************************************************************)
(* Properties of export and import.                                        *)
(***************************************************************************)
\* an import with append=False of a file exported from a history that fits
\* into the importing manager
ImportOfExport ==
    /\ ev.op = "imported" /\ ~ev.append
    /\ IsList(ev.source)
    /\ max_history_size[ev.m] >= Len(ev.source.l)

\* C10 as stated: after the import the importing manager's history equals
\* the exporting manager's history, message for message.
C10_ImportEqualsExport == ImportOfExport => history[ev.m] = ev.source

\* C10 as amended: after the import the importing manager's history has the
\* exporting manager's messages in the same order, each with the same role,
\* content and timestamp, and with the metadata that json.load yields for
\* the JSON dump of the exported metadata (integer keys come back as
\* strings), whatever the importing manager held before.
C10_ImportEqualsExportJson ==
    ImportOfExport =>
        /\ IsList(history[ev.m])
        /\ Len(history[ev.m].l) = Len(ev.source.l)
        /\ \A i \in DOMAIN ev.source.l :
               LET got == history[ev.m].l[i].d
                   sent == ev.source.l[i].d
               IN  /\ got.role = sent.role
                   /\ got.content = sent.content
                   /\ got.timestamp = sent.timestamp
                   /\ got.metadata = FromJson(ToJson(sent.metadata))

C10_Witness ==
    /\ ImportOfExport
    /\ Len(ev.source.l) = 2
    /\ IsList(ev.pre) /\ Len(ev.pre.l) = 1
    /\ history[ev.m] # ev.source
    /\ Len(history[ev.m].l) = 2

(***************************************************************************)
(* Properties of get_history and get_formatted_history.                    *)
(***************************************************************************)
ReturnOf(op) == ev.op = "return" /\ ev.of = op

\* the messages get_formatted_history is asked for, before any limit
Wanted(l, include_system) ==
    SelectSeq(l, LAMBDA msg : include_system \/ msg.d.role # StrV("system"))

\* q is the last Len(q) elements of r
IsSuffix(q, r) == Len(q) <= Len(r) /\ q = SubSeq(r, Len(r) - Len(q) + 1, Len(r))

\* C11: get_formatted_history returns, in history order, one record per
\* selected message holding exactly the keys role and content, with that
\* message's role and content; with include_system=False no record has role
\* "system" and, when no limit is given, every non-system message is
\* returned; the call leaves the in-memory history and the files unchanged.
C11_FormattedHistory ==
    (ReturnOf("get_formatted_history") /\ IsList(ev.pre)) =>
        LET wanted == Wanted(ev.pre.l, ev.args.include_system)
            roleContent == [i \in DOMAIN wanted |->
                               DictV([role |-> wanted[i].d.role,
                                      content |-> wanted[i].d.content])]
        IN  /\ ev.exc = "none"
            /\ IsList(ev.result)
            /\ \A i \in DOMAIN ev.result.l :
                   /\ DOMAIN ev.result.l[i].d = {"role", "content"}
                   /\ DOMAIN ev.result.l[i].ik = {}
                   /\ ~ev.args.include_system => ev.result.l[i].d.role # StrV("system")
            /\ IsSuffix(ev.result.l, roleContent)
            /\ ev.args.limit = NoneV => ev.result.l = roleContent
            /\ history[ev.m] = ev.pre
            /\ files = ev.prefiles

C11_Witness ==
    /\ ReturnOf("get_formatted_history")
    /\ ~ev.args.include_system
    /\ ev.args.limit = NoneV
    /\ Len(ev.pre.l) = 3
    /\ \E i \in DOMAIN ev.pre.l : /\ ev.pre.l[i].d.role = StrV("system")
                                  /\ Truthy(ev.pre.l[i].d.metadata)
    /\ Len(ev.result.l) = 2
    /\ ev.result.l[1] # ev.result.l[2]

\* C12: for every integer limit n >= 0, get_history(limit=n) and
\* get_formatted_history(limit=n) return at most n messages.
C12_LimitBounds ==
    ((ReturnOf("get_history") \/ ReturnOf("get_formatted_history"))
        /\ ev.exc = "none" /\ ev.args.limit # NoneV)
    => Len(ev.result.l) <= ev.args.limit.n

(***************************************************************************)
(* Properties of GPSFabricConnector.send_coordinates.                      *)
(***************************************************************************)
True == BoolV(TRUE)
False == BoolV(FALSE)

LastPost(e) == e.posts[Len(e.posts)]

\* The exchange failed in one of the ways the connector must report as False:
\* the last attempt raised (timeout, connection error, other request
\* exception), or the response has an HTTP error status, a body that is not
\* JSON, a JSON body that is not an object, a JSON-RPC error (an error member
\* and no result), or no result member.
FailedExchange(e) ==
    /\ e.posts # <<>>
    /\ \/ LastPost(e).outcome # "response"
       \/ /\ LastPost(e).outcome = "response"
          /\ \/ IsErrorStatus(e.response.status)
             \/ e.response.body.f # "json"
             \/ e.response.body.doc.j # "object"
             \/ "result" \notin DOMAIN e.response.body.doc.o

C14_AttemptsWithinMaxRetries ==
    fabric_pc # "none" => Len(posts) <= max_retries

JsonTruthy(x) == x \notin {JNull, JBool(FALSE), JNum(0), JStr(""), JArr(<<>>), JObj(<<>>)}

\* What the response alone says: a non-error status and a JSON object with a
\* truthy result
ResponseOk(r) ==
    /\ ~IsErrorStatus(r.status)
    /\ r.body.f = "json"
    /\ r.body.doc.j = "object"
    /\ "result" \in DOMAIN r.body.doc.o
    /\ JsonTruthy(r.body.doc.o.result)

\* C15: the attempts are made one after another; when every attempt raises
\* there are exactly 3 of them and send_coordinates returns False; when
\* attempt k <= 3 returns a response after k-1 attempts that raised, no
\* further attempt is made and the result is decided by that response alone.
C15_RetryThenDecide ==
    /\ fabric_pc = "post" => attempt_number = Len(posts) + 1
    /\ fabric_pc \in {"wait", "response"} => attempt_number = Len(posts)
    /\ fabric_pc = "wait" => posts[Len(posts)].outcome # "response"
    /\ (ReturnOf("send_coordinates") /\ ev.posts # <<>>) =>
          LET n == Len(ev.posts) IN
          /\ n <= 3
          /\ \A i \in 1..(n - 1) : ev.posts[i].outcome # "response"
          /\ LastPost(ev).outcome # "response" => (n = 3 /\ ev.result = False)
          /\ LastPost(ev).outcome = "response" => ev.result = BoolV(ResponseOk(ev.response))

C15_Witness ==
    /\ ReturnOf("send_coordinates")
    /\ Len(ev.posts) = 3
    /\ ev.posts[1].outcome = "Timeout"
    /\ ev.posts[2].outcome = "ConnectionError"
    /\ ev.posts[3].outcome = "response"
    /\ ev.result = True

\* the three values a POSTed body carries
Carried(post) == post.json.o.params.a[1].o

\* C16: if latitude, longitude or yaw_deg is None when send_coordinates is
\* called, it returns False and issues no HTTP request; if all three are
\* present, every POST carries exactly those three values as latitude,
\* longitude and yaw.
C16_CompleteCoordinatesOnly ==
    ReturnOf("send_coordinates") =>
        IF \E name \in DynamicVariables : ev.io[name] = NoneV
        THEN ev.result = False /\ ev.posts = <<>>
        ELSE /\ ev.posts # <<>>
             /\ \A i \in DOMAIN ev.posts :
                    /\ DOMAIN Carried(ev.posts[i]) = {"latitude", "longitude", "yaw"}
                    /\ Carried(ev.posts[i]).latitude = ToJson(ev.io.latitude)
                    /\ Carried(ev.posts[i]).longitude = ToJson(ev.io.longitude)
                    /\ Carried(ev.posts[i]).yaw = ToJson(ev.io.yaw_deg)

C16_Witness ==
    /\ ReturnOf("send_coordinates")
    /\ ev.io = [latitude |-> IntV(0), longitude |-> IntV(1), yaw_deg |-> IntV(0)]
    /\ Len(ev.posts) = 2
    /\ ev.result = True

(***************************************************************************)
(* Properties of the simulator loader.                                     *)
(***************************************************************************)
\* C17: whenever load_simulator or get_simulator_class fails (class declared
\* in no plugin file, module not importable, attribute missing, attribute
\* not a proper Simulator subclass, configuration without a "type" entry),
\* the exception is a ValueError.
C17_FailuresAreValueErrors ==
    ((ReturnOf("load_simulator") \/ ReturnOf("get_simulator_class")) /\ ev.exc # "none")
    => ev.exc = "ValueError"

\* what getattr(module, type) is for the module find_module_with_class names
Found(class_name) == FindModuleWithClass(plugins_dir, class_name)
ResolvedKind(class_name) ==
    IF Found(class_name) = NoneV THEN "unresolved"
    ELSE IF plugin_modules[Found(class_name).s].import # "ok" THEN "unresolved"
    ELSE GetAttr(plugin_modules[Found(class_name).s], class_name)

\* C18: when find_module_with_class returns None for the requested type,
\* load_simulator raises ValueError "Class '<type>' not found in any
\* simulator plugin module" and imports no module; when the resolved
\* attribute is not a class, not a subclass of Simulator, or Simulator
\* itself, it raises ValueError "'<type>' is not a valid simulator subclass"
\* and instantiates nothing.
C18_NotFoundAndInvalid ==
    (ReturnOf("load_simulator") /\ "type" \in DOMAIN ev.arg.d) =>
        LET type == ev.arg.d.type IN
        /\ Found(type) = NoneV =>
              /\ ev.exc = "ValueError"
              /\ ev.msg = Msg("Class '{}' not found in any simulator plugin module", type)
              /\ import_calls = <<>>
              /\ instances = <<>>
        /\ ResolvedKind(type) \in {"object", "class", "Simulator"} =>
              /\ ev.exc = "ValueError"
              /\ ev.msg = Msg("'{}' is not a valid simulator subclass", type)
              /\ instances = <<>>

C18_Witness ==
    /\ ReturnOf("load_simulator")
    /\ "type" \in DOMAIN ev.arg.d
    /\ ResolvedKind(ev.arg.d.type) = "Simulator"
    /\ ev.exc = "ValueError"
    /\ Len(import_calls) = 1

\* the files of the directory a textual search for class_name stops at
TextualHits(class_name, wanted(_)) ==
    {i \in DOMAIN plugins_dir.files :
        LET f == plugins_dir.files[i] IN
        /\ f.ext = "py"
        /\ f.readable
        /\ \E k \in DOMAIN f.decls :
               /\ f.decls[k].col = 0
               /\ f.decls[k].name = class_name.s
               /\ \E b \in DOMAIN f.decls[k].bases : wanted(f.decls[k].bases[b])}

FindReturns(hits) ==
    IF ~plugins_dir.exists \/ hits = {}
    THEN ev.result = NoneV
    ELSE \E i \in hits : /\ \A j \in hits : i <= j
                         /\ ev.result = StrV(plugins_dir.files[i].name)

IsSimulatorBase(b) == b = "Simulator"

\* C19 as stated: find_module_with_class(name) returns None when the plugins
\* directory does not exist or no .py file in it has a top-level declaration
\* of class <name> with Simulator among its bases; otherwise the name,
\* without .py, of the first such file in listing order; unreadable files
\* are skipped.
C19_FindSimulatorBase ==
    ReturnOf("find_module_with_class") =>
        FindReturns(TextualHits(ev.arg, IsSimulatorBase))

\* C19 as amended: the declaration is recognised by its text: a line that
\* starts with class <name> and a parenthesised list in which the text
\* Simulator occurs, as a base name or inside one (MockSimulator).
C19_FindTextualMatch ==
    ReturnOf("find_module_with_class") =>
        FindReturns(TextualHits(ev.arg, MentionsSimulator))

C19_Witness ==
    /\ ReturnOf("find_module_with_class")
    /\ ev.arg = StrV("Sim")
    /\ Len(plugins_dir.files) = 2
    /\ ~plugins_dir.files[1].readable
    /\ plugins_dir.files[1].ext = "py"
    /\ plugins_dir.files[2].decls = <<Decl(0, "Sim", <<"MockSimulator">>)>>
    /\ ev.result = StrV(plugins_dir.files[2].name)

\* C20: on success load_simulator calls find_module_with_class exactly once
\* with simulator_config["type"], imports exactly the module
\* simulators.plugins.<returned module name>, and returns an instance of the
\* class of that name from that module, built with a config made from
\* simulator_config["config"] when that is a dict and from no fields when it
\* is absent or not a dict.
C20_LoadSuccess ==
    (ReturnOf("load_simulator") /\ ev.exc = "none") =>
        LET type == ev.arg.d.type
            given == IF "config" \in DOMAIN ev.arg.d THEN ev.arg.d.config ELSE NoneV
        IN  /\ find_calls = <<type>>
            /\ Found(type) # NoneV
            /\ import_calls = <<[package |-> "simulators.plugins", module |-> Found(type).s]>>
            /\ ev.result.t = "instance"
            /\ ev.result.class = type
            /\ ev.result.module = Found(type)
            /\ ResolvedKind(type) = "subclass"
            /\ ev.result.config.fields = IF given.t = "dict" THEN given ELSE EmptyDict
            /\ instances = <<ev.result>>

C20_Witness ==
    /\ ReturnOf("load_simulator")
    /\ ev.exc = "none"
    /\ "config" \in DOMAIN ev.arg.d
    /\ ev.arg.d.config = StrV("x")
    /\ ev.result.module = StrV("b")
    /\ ev.result.config.fields = EmptyDict
    /\ Len(plugins_dir.files) = 2

(***************************************************************************)
(* Properties of the bound at startup.                                     *)
(***************************************************************************)
\* a history file whose "history" array holds messages only
HoldsValidMessages(c) ==
    /\ c.f = "json" /\ c.doc.j = "object"
    /\ "history" \in DOMAIN c.doc.o /\ c.doc.o.history.j = "array"
    /\ \A i \in DOMAIN c.doc.o.history.a : IsMessageEntry(c.doc.o.history.a[i])

\* C21: immediately after construction with max_history_size = M on a
\* history file that holds valid messages only, however many, the in-memory
\* history holds at most M messages.
C21_BoundedAfterLoad ==
    (ev.op = "init" /\ ev.exc = "none" /\ HoldsValidMessages(ev.src))
        => PyLen(history[ev.m]) <= max_history_size[ev.m]

(***************************************************************************)
(* Properties of import_history.                                           *)
(***************************************************************************)
\* the history file of manager m holds the history of m as saved now
HistoryFileCurrent(m) ==
    files[HistoryFile(agent_name[m])] =
        Text(ToJson(SaveData(agent_name[m], now, history[m])))

\* C22: import_history from a readable file whose "history" is a list L makes
\* the in-memory history L (append=False) or the previous history followed
\* by L (append=True), cut to its last max_history_size messages, and the
\* result is written to the history file whatever auto_save is.
C22_ImportThenTrimAndSave ==
    /\ (ev.op = "imported" /\ IsList(ev.imported) /\ IsList(ev.pre))
          => LET whole == IF ev.append THEN ev.pre.l \o ev.imported.l ELSE ev.imported.l
                 M == max_history_size[ev.m]
             IN  /\ history[ev.m] = ListV(LastN(whole, Min(Len(whole), M)))
                 /\ pc[ev.t] = "save_open"
                 /\ sv[ev.t].target = HistoryFile(agent_name[ev.m])
    /\ (ev.op = "saved" /\ call[ev.t].op = "import_history") => HistoryFileCurrent(ev.m)

\* an import file that is missing, cannot be read, is not JSON, or is JSON
\* that is not an object whose "history" is a list
ReadFails(c) == c.f \in {"absent", "unreadable", "partial", "garbage"}
                   \/ (c.f = "json" /\ c.doc.j # "object")
HistoryNotAList(v) == ~IsList(v)

\* C23: a failed import changes nothing.  When the import file is missing,
\* unreadable, not JSON or not an object, the step that reads it returns
\* without raising and leaves the history and every file as they were; when
\* the "history" of the file is not a list, import_history returns with the
\* in-memory history it found and starts no save.
C23_FailedImportChangesNothing ==
    /\ [][\A t \in Threads :
            (pc[t] = "import_read" /\ pc'[t] # "import_read"
                /\ ReadFails(files[call[t].filepath]))
            => /\ ev'.op = "return" /\ ev'.of = "import_history" /\ ev'.exc = "none"
               /\ history' = history /\ files' = files]_vars
    /\ []((ev.op = "imported" /\ HistoryNotAList(ev.imported))
            => (history[ev.m] = ev.pre /\ pc[ev.t] = "idle"))

\* C24: in every reachable state the in-memory history of a manager is a
\* list whose entries all have a role and a content field, and every
\* get_history and get_formatted_history call completes without error.
C24_RequiredFieldsAlways ==
    /\ \A m \in Mgrs :
          alive[m] => /\ IsList(history[m])
                      /\ \A i \in DOMAIN history[m].l : ValidMessage(history[m].l[i])
    /\ (ReturnOf("get_history") \/ ReturnOf("get_formatted_history")) => ev.exc = "none"

(***************************************************************************)
(* Properties of clear_history on disk.                                    *)
(***************************************************************************)
\* the history file of manager m holds an empty history with message_count
\* 0, from which a constructor loads an empty history
HoldsEmptyHistory(m) ==
    LET c == files[HistoryFile(agent_name[m])] IN
    /\ c.f = "json" /\ c.doc.j = "object"
    /\ c.doc.o.history = JArr(<<>>)
    /\ c.doc.o.message_count = JNum(0)
    /\ LoadHistory(c) = Loaded(EmptyList, "none")

\* thread t is in clear_history and no backup file has been chosen
NoBackupChosen(t) == call[t].op = "clear_history" /\ call[t].backup_file = NoPath
\* thread t is inside the write of the backup file
InBackupSave(t) ==
    /\ call[t].op = "clear_history"
    /\ pc[t] \in {"save_open", "save_write", "save_rename"}
    /\ sv[t].target.kind = "backup"

\* no backup is chosen when save_backup is False or the history is empty,
\* and a call without backup file leaves every backup path as it was
NoBackupUnlessWanted ==
    /\ []((ev.op = "cleared" /\ (~ev.save_backup \/ ev.pre = EmptyList))
            => ev.backup_file = NoPath)
    /\ [][(\E t \in Threads : NoBackupChosen(t))
            => \A p \in Paths : p.kind = "backup" => files'[p] = files[p]]_vars

\* a write of the backup file that fails ends the call with the exception
\* and with the history and the history file as they were
BackupFailureLeavesState ==
    [][\A t \in Threads :
         (InBackupSave(t) /\ pc'[t] \notin {"save_open", "save_write", "save_rename",
                                             "clear_empty"})
         => /\ pc'[t] = "idle" /\ ev'.op = "return" /\ ev'.exc # "none"
            /\ history' = history
            /\ files'[HistoryFile(agent_name[call[t].m])] =
                   files[HistoryFile(agent_name[call[t].m])]]_vars

\* C25 (as stated): whenever clear_history returns without error the history
\* file holds an empty history with message_count 0; no backup file is
\* written when save_backup is False or the history is empty; a failed
\* backup write leaves the history and the history file as they were.
C25_ClearAlwaysPersists ==
    /\ []((ReturnOf("clear_history") /\ ev.exc = "none") => HoldsEmptyHistory(ev.m))
    /\ NoBackupUnlessWanted
    /\ BackupFailureLeavesState

\* C25 (amended): the same, for the returns of clear_history whose save of
\* the history file did not fail: the state right after the rename, and
\* every return of a manager none of whose saves has failed.
C25_ClearPersistsWhenSaved ==
    /\ []((ev.op = "saved" /\ call[ev.t].op = "clear_history"
              /\ ev.path = HistoryFile(agent_name[ev.m]))
            => (HoldsEmptyHistory(ev.m) /\ history[ev.m] = EmptyList
                   /\ pc[ev.t] = "unlock"))
    /\ []((ReturnOf("clear_history") /\ ev.exc = "none" /\ ~track[ev.m].saveFailed)
            => (HoldsEmptyHistory(ev.m) /\ history[ev.m] = EmptyList))
    /\ NoBackupUnlessWanted
    /\ BackupFailureLeavesState

C25_Witness ==
    /\ ReturnOf("clear_history") /\ ev.exc = "none" /\ ~track[ev.m].saveFailed
    /\ ~auto_save[ev.m]
    /\ HoldsEmptyHistory(ev.m)
    /\ files[BackupFile(agent_name[ev.m], now)] # Absent

(***************************************************************************)
(* Properties of add_message on disk.                                      *)
(***************************************************************************)
\* the history file of manager m holds the in-memory history of m, and its
\* message_count is the length of its history list
HistoryFileHolds(m) ==
    LET c == files[HistoryFile(agent_name[m])] IN
    /\ c.f = "json" /\ c.doc.j = "object"
    /\ c.doc.o.history = ToJson(history[m])
    /\ c.doc.o.message_count = JNum(Len(c.doc.o.history.a))

\* thread t is in add_message on a manager with this auto_save
Adding(t, as) == call[t].op = "add_message" /\ auto_save[call[t].m] = as

\* C26: with auto_save False no step taken while add_message runs changes a
\* file or a field of the manager other than the history; with auto_save
\* True, right after the rename of a successful save, and at the end of
\* every add_message of a manager none of whose saves has failed, the
\* history file holds the in-memory history and a message_count equal to
\* the length of its history list, and the return changes neither.
C26_AutoSaveDecidesDisk ==
    /\ [][(\E t \in Threads : Adding(t, FALSE))
            => (files' = files /\ mgrVars' = mgrVars)]_vars
    /\ []((ev.op = "saved" /\ Adding(ev.t, TRUE))
            => (HistoryFileHolds(ev.m) /\ pc[ev.t] = "unlock"))
    /\ [](\A t \in Threads :
            (Adding(t, TRUE) /\ pc[t] = "unlock" /\ ~track[call[t].m].saveFailed)
                => HistoryFileHolds(call[t].m))
    /\ [][\A t \in Threads :
            (Adding(t, TRUE) /\ pc[t] = "unlock" /\ pc'[t] = "idle")
                => (files' = files /\ history' = history /\ ev'.exc = "none")]_vars

C26_Witness ==
    /\ ev.op = "saved" /\ Adding(ev.t, TRUE)
    /\ HistoryFileHolds(ev.m)
    /\ Len(history[ev.m].l) = 2
    /\ max_history_size[ev.m] = 2
    /\ \E t \in Threads : t # ev.t /\ pc[t] = "add_lock"

\* thread t leaves the write of a save without reaching the rename
SaveFails(t) ==
    /\ pc[t] \in {"save_open", "save_write"}
    /\ pc'[t] \notin {"save_open", "save_write", "save_rename"}

\* C27: when the write of the history file fails during add_message with
\* auto_save True, the failure is caught (the call goes on to the end of
\* its with block), the message is the last of the in-memory history, the
\* history file holds what it held when the save began, and the call then
\* returns without raising and leaves the lock free.
C27_FailedSaveKeepsMessage ==
    /\ [][\A t \in Threads :
            (Adding(t, TRUE) /\ SaveFails(t))
            => LET m == call[t].m
                   h == history'[m].l
               IN  /\ ev'.op = "savefailed" /\ pc'[t] = "unlock" /\ lock'[m] = t
                   /\ history' = history
                   /\ Len(h) > 0
                   /\ RoleContent(h[Len(h)]) = <<call[t].role, call[t].content>>
                   /\ files'[sv[t].target] = sv[t].prev
                   /\ sv[t].target = HistoryFile(agent_name[m])]_vars
    /\ [][\A t \in Threads :
            (Adding(t, TRUE) /\ pc[t] = "unlock" /\ pc'[t] = "idle")
            => (ev'.op = "return" /\ ev'.exc = "none" /\ lock'[call[t].m] = "free"
                   /\ history' = history)]_vars

C27_Witness ==
    /\ ev.op = "savefailed"
    /\ Adding(ev.t, TRUE)
    /\ Len(history[ev.m].l) = 2
    /\ files[HistoryFile(agent_name[ev.m])].f = "json"
    /\ files[HistoryFile(agent_name[ev.m])].doc.o.message_count = JNum(1)
    /\ \E t \in Threads : t # ev.t /\ pc[t] = "add_lock"

(***************************************************************************)
(* Properties of the lock.                                                 *)
(***************************************************************************)
LockPcs == {"add_lock", "clear_lock", "export_lock", "import_lock", "get_lock"}

\* C28: no thread waits for the lock of a manager while it holds that lock;
\* a thread that is in no call holds no lock, whether its call returned or
\* raised; and under fair scheduling every call of every thread eventually
\* completes.
C28_LockReleasedCallsComplete ==
    /\ [](\A t \in Threads : pc[t] \in LockPcs => lock[call[t].m] # t)
    /\ [](\A t \in Threads : pc[t] = "idle" => \A m \in Mgrs : lock[m] # t)
    /\ \A t \in Threads : (pc[t] # "idle") ~> (pc[t] = "idle")

\* a call has just raised while the other thread waits for the lock, which
\* is free again
C28_Witness ==
    /\ ev.op = "return" /\ ev.exc # "none"
    /\ lock[ev.m] = "free"
    /\ \E t \in Threads : t # ev.t /\ pc[t] \in LockPcs

(***************************************************************************)
(* Properties of get_history.                                              *)
(***************************************************************************)
\* the messages of l whose role is r
OfRole(l, r) == SelectSeq(l, LAMBDA msg : msg.d.role = r)

\* C29: get_history(limit=n, role_filter=r) with n >= 1 returns the last n
\* (all, when there are fewer) of the messages of role r, in history order,
\* and leaves the in-memory history unchanged; a caller that then appends to
\* or removes from the returned list leaves the history unchanged too.
C29_FilterThenLimit ==
    /\ (ReturnOf("get_history") /\ IsList(ev.pre)
            /\ Truthy(ev.args.role_filter)
            /\ ev.args.limit.t = "int" /\ ev.args.limit.n >= 1)
          => LET ofRole == OfRole(ev.pre.l, ev.args.role_filter) IN
             /\ ev.exc = "none"
             /\ ev.result = ListV(LastN(ofRole, Min(ev.args.limit.n, Len(ofRole))))
             /\ history[ev.m] = ev.pre
    /\ (ev.op = "changed" /\ ev.of = "get_history")
          => (history[ev.m] = ev.pre /\ ev.result # ev.returned)

\* the last n messages hold fewer messages of role r than get_history returns
C29_Witness ==
    /\ ReturnOf("get_history") /\ ev.exc = "none"
    /\ ev.args.role_filter = StrV("user")
    /\ ev.args.limit = IntV(2)
    /\ Len(ev.pre.l) >= 3
    /\ Len(ev.result.l) = 2
    /\ Len(OfRole(LastN(ev.pre.l, 2), StrV("user"))) = 1

(***************************************************************************)
(* Properties of the result of send_coordinates.                           *)
(***************************************************************************)
AllPresent(io) == \A name \in DynamicVariables : io[name] # NoneV
FalsyResults == {JBool(FALSE), JNum(0), JNull, JStr(""), JArr(<<>>), JObj(<<>>)}

\* C30: send_coordinates returns True exactly when all three coordinates
\* are present, one of at most 3 attempts returned a response, and that
\* response has a non-error status and a body that is a JSON object with a
\* truthy "result"; a "result" that is false, 0, null or empty gives False.
C30_TrueIffTruthyResult ==
    ReturnOf("send_coordinates") =>
        /\ ev.result = True <=>
               /\ AllPresent(ev.io)
               /\ ev.posts # <<>> /\ Len(ev.posts) <= 3
               /\ LastPost(ev).outcome = "response"
               /\ ~IsErrorStatus(ev.response.status)
               /\ ev.response.body.f = "json"
               /\ ev.response.body.doc.j = "object"
               /\ "result" \in DOMAIN ev.response.body.doc.o
               /\ ev.response.body.doc.o.result \notin FalsyResults
        /\ (/\ ev.posts # <<>>
            /\ LastPost(ev).outcome = "response"
            /\ ev.response.body.f = "json"
            /\ ev.response.body.doc.j = "object"
            /\ "result" \in DOMAIN ev.response.body.doc.o
            /\ ev.response.body.doc.o.result \in FalsyResults)
           => ev.result = False

C30_Witness ==
    /\ ReturnOf("send_coordinates")
    /\ AllPresent(ev.io)
    /\ Len(ev.posts) = 2
    /\ ev.response = Response(200, Text(JObj([result |-> JBool(FALSE)])))
    /\ ev.result = False

(***************************************************************************)
(* Properties of the retry loop.                                           *)
(***************************************************************************)
\* a response with an HTTP error status, a body that is not JSON, or a
\* JSON-RPC error (an error member and no truthy result)
RefusedResponse(r) ==
    \/ IsErrorStatus(r.status)
    \/ r.body.f # "json"
    \/ /\ r.body.doc.j = "object"
       /\ "error" \in DOMAIN r.body.doc.o
       /\ ~ResponseOk(r)

\* C31: only attempts that raised are retried.  While an attempt is being
\* made or waited for, every earlier attempt of the call raised; and the
\* step after an attempt that returned a response with an error status, a
\* body that is not JSON or a JSON-RPC error is the return of
\* send_coordinates with False and with no further POST.
C31_OnlyRaisedAttemptsRetried ==
    /\ [](fabric_pc \in {"post", "wait"}
            => \A i \in DOMAIN posts : posts[i].outcome # "response")
    /\ [][(fabric_pc = "response" /\ RefusedResponse(response))
            => /\ fabric_pc' = "idle"
               /\ ev'.op = "return" /\ ev'.of = "send_coordinates"
               /\ ev'.result = False /\ ev'.exc = "none"
               /\ ev'.posts = posts
               /\ ev'.response = response]_vars

C31_Witness ==
    /\ ReturnOf("send_coordinates")
    /\ Len(ev.posts) = 2
    /\ ev.posts[1].outcome = "Timeout"
    /\ ev.posts[2].outcome = "response"
    /\ ev.response = Response(500, Garbage)
    /\ ev.result = False

(***************************************************************************)
(* Properties of connect.                                                  *)
(***************************************************************************)
\* C32: connect never raises; for an action other than SHARE_LOCATION it
\* calls neither send_coordinates nor _get_coordinates and issues no POST,
\* and the step changes nothing of the connector; for SHARE_LOCATION it
\* makes one send_coordinates call, which reads the coordinates once and
\* issues the POSTs of one exchange (none when a coordinate is missing, at
\* most 3 otherwise), whether that call returned True or False.
C32_ConnectSharesLocationOnly ==
    /\ [](ReturnOf("connect") =>
            /\ ev.exc = "none"
            /\ IF ev.action = "SHARE_LOCATION"
               THEN /\ ev.sends = 1 /\ ev.reads = 1
                    /\ ev.success \in {True, False}
                    /\ Len(ev.posts) <= 3
                    /\ ev.success = True => ev.posts # <<>>
                    /\ \A i \in 1..(Len(ev.posts) - 1) : ev.posts[i].outcome # "response"
               ELSE /\ ev.sends = 0 /\ ev.reads = 0 /\ ev.posts = <<>>)
    /\ [][(ev'.op = "return" /\ ev'.of = "connect" /\ ev'.action # "SHARE_LOCATION")
            => UNCHANGED fabricVars]_vars

C32_Witness ==
    /\ ReturnOf("connect")
    /\ ev.action = "SHARE_LOCATION"
    /\ ev.success = False
    /\ Len(ev.posts) = 3
    /\ ev.posts[3].outcome = "response"

(***************************************************************************)
(* get_simulator_class against load_simulator.                             *)
(***************************************************************************)
\* what each function does for a class name in the current state
LoadOf(name) == LoadSimulator(DictV([type |-> name]), plugins_dir, plugin_modules)
ClassOf(name) == GetSimulatorClass(name, plugins_dir, plugin_modules)

\* the ValueErrors of class resolution: not found, import, invalid subclass
ResolutionTexts ==
    {NotFoundAnywhere(NoneV).text, NotFoundInModule(NoneV).text,
     CouldNotImport(StrV("")).text,
     NotValidSimulatorSubclass(NoneV).text, NotValidSubclass(NoneV).text}
ResolutionError(ran) == ran.exc = "ValueError" /\ ran.msg.text \in ResolutionTexts

\* load_simulator reaches configuration and instantiation
PastResolution(name) == ResolvedKind(name) = "subclass"

ResolveAlike(name) ==
    LET l == LoadOf(name)
        g == ClassOf(name)
    IN  /\ PastResolution(name) <=> g.exc = "none"
        /\ l.exc = "none" => PastResolution(name)
        /\ (l.exc = "none" /\ g.exc = "none") =>
              /\ l.value.class = g.value.class
              /\ l.value.module = g.value.module
              /\ l.imports = g.imports
        /\ ResolutionError(l) <=> ResolutionError(g)

\* the call that has just returned is one of the two, for the class name
JustResolved(name) ==
    \/ ReturnOf("get_simulator_class") /\ ev.arg = name
         /\ ev.exc = ClassOf(name).exc /\ ev.msg = ClassOf(name).msg
    \/ ReturnOf("load_simulator") /\ ev.arg = DictV([type |-> name])
         /\ ev.exc = LoadOf(name).exc /\ ev.msg = LoadOf(name).msg

\* C33: get_simulator_class and load_simulator resolve a class name
\* identically: in every state of the plugins directory and modules,
\* load_simulator({"type": name}) reaches configuration and instantiation
\* exactly when get_simulator_class(name) returns a class, then both use the
\* same class of the same module, and one raises a not-found, import or
\* invalid-subclass ValueError exactly when the other does.
C33_ResolveIdentically ==
    \A name \in {StrV(n) : n \in ClassNames} :
        JustResolved(name) => ResolveAlike(name)

\* the case C33 fails on: the class resolves, get_simulator_class returns it,
\* and load_simulator raises a ValueError of class resolution
C33_Diverges ==
    \E name \in {StrV(n) : n \in ClassNames} :
        /\ ReturnOf("load_simulator") /\ ev.arg = DictV([type |-> name])
        /\ ev.exc = "ValueError" /\ ev.msg = NotFoundInModule(name)
        /\ ClassOf(name).exc = "none"
        /\ ClassOf(name).value = ClassObject(name, Found(name))

====
